---------------------------- MODULE Spec2Model ----------------------------
(***************************************************************************)
(* NataBridge (src/app.py, src/database.py): the risk classifier           *)
(* calculate_risk_score, the threshold alerter check_vital_thresholds and   *)
(* the offline-sync route sync_push, as state machines.                     *)
(*                                                                         *)
(* A request body is a JSON mapping.  A field of it is a Python value: None *)
(* (the key is absent or null), an int, a float or a str.  Python values    *)
(* are records of one shape, [t, n, s]: t is the type, n the number (a      *)
(* float is kept in tenths, which is exact for readings with one decimal),  *)
(* s the string.                                                            *)
(***************************************************************************)
EXTENDS Integers, Sequences, FiniteSets, TLC

VARIABLES
    pc,        \* position of the call under study
    data,      \* request.json of a triage / NataBand request
    risk,      \* what calculate_risk_score returned (or the exception it raised)
    alerts,    \* what check_vital_thresholds returned (or the exception it raised)
    calls,     \* the calls of the two functions that are running side by side
    batch,     \* request.json['items'] of a sync_push request
    idx,       \* sync_push: 1-based position of the for loop in batch
    local_id,  \* sync_push: the local variable local_id (Unbound before its first assignment)
    results,   \* sync_push: the local variable results
    txn,       \* the connection's transaction: "none", "open" or "aborted"
    pending,   \* rows written by the open transaction, not yet committed
    store,     \* committed rows of the tables mothers and home_visits
    seq,       \* the SERIAL sequences of the two tables (last value handed out)
    returned,  \* sync_push: per batch position, the id its INSERT returned (0: none)
    origin,    \* sync_push: per entry of results, the batch position that appended it
    now,       \* the clock datetime.utcnow() reads, in requests served
    user,      \* request.user, the payload of the caller's token
    response   \* the HTTP response of sync_push

vars == <<pc, data, risk, alerts, calls, batch, idx, local_id, results, txn, pending,
          store, seq, returned, origin, now, user, response>>

riskVars == <<data, risk, alerts, calls>>
syncVars == <<batch, idx, local_id, results, txn, pending, store, seq, returned,
              origin, now, user, response>>

---------------------------------------------------------------------------
(* Python values *)

PyNone == [t |-> "none", n |-> 0, s |-> ""]

PyInt(i) == [t |-> "int", n |-> i, s |-> ""]

\* a float with one decimal, given in tenths: PyFloat(385) is 38.5
PyFloat(tenths) == [t |-> "float", n |-> tenths, s |-> ""]

PyStr(x) == [t |-> "str", n |-> 0, s |-> x]

IsNumber(v) == v.t \in {"int", "float"}

\* bool(v): None, 0, 0.0 and "" are false
Truthy(v) ==
    CASE v.t = "none" -> FALSE
      [] v.t = "int" -> v.n # 0
      [] v.t = "float" -> v.n # 0
      [] v.t = "str" -> v.s # ""

\* the value in tenths, for a number
Tenths(v) == IF v.t = "float" THEN v.n ELSE 10 * v.n

(* A comparison of a Python value with a numeric literal gives "T", "F", or *)
(* "E": None and str do not order against a number, Python raises TypeError.*)
PyGe(v, lit10) == IF IsNumber(v) THEN (IF Tenths(v) >= lit10 THEN "T" ELSE "F") ELSE "E"

PyLt(v, lit10) == IF IsNumber(v) THEN (IF Tenths(v) < lit10 THEN "T" ELSE "F") ELSE "E"

PyGt(v, lit10) == IF IsNumber(v) THEN (IF Tenths(v) > lit10 THEN "T" ELSE "F") ELSE "E"

\* a or b: b is evaluated only when a is false; an exception in a propagates
PyOr(a, b) == IF a = "F" THEN b ELSE a

\* str(v) as an f-string embeds it
RECURSIVE PyFormat(_)
PyFormat(v) ==
    CASE v.t = "none" -> "None"
      [] v.t = "int" -> ToString(v.n)
      [] v.t = "float" ->
            IF v.n < 0 THEN "-" \o PyFormat(PyFloat(0 - v.n))
            ELSE ToString(v.n \div 10) \o "." \o ToString(v.n % 10)
      [] v.t = "str" -> v.s

---------------------------------------------------------------------------
(* str.replace('_', ' ') and str.title() *)

LowerCase == "abcdefghijklmnopqrstuvwxyz"

UpperCase == "ABCDEFGHIJKLMNOPQRSTUVWXYZ"

CharAt(str, i) == SubSeq(str, i, i)

\* position of the one-character string c in str, 0 when it is not there
IndexIn(c, str) ==
    IF \E i \in 1..Len(str) : CharAt(str, i) = c
    THEN CHOOSE i \in 1..Len(str) : CharAt(str, i) = c
    ELSE 0

IsLetter(c) == IndexIn(c, LowerCase) > 0 \/ IndexIn(c, UpperCase) > 0

ToUpper(c) == IF IndexIn(c, LowerCase) > 0 THEN CharAt(UpperCase, IndexIn(c, LowerCase)) ELSE c

ToLower(c) == IF IndexIn(c, UpperCase) > 0 THEN CharAt(LowerCase, IndexIn(c, UpperCase)) ELSE c

RECURSIVE ReplaceUnderscores(_)
ReplaceUnderscores(str) ==
    IF Len(str) = 0 THEN ""
    ELSE (IF CharAt(str, 1) = "_" THEN " " ELSE CharAt(str, 1))
         \o ReplaceUnderscores(SubSeq(str, 2, Len(str)))

\* title(): a letter after a non-letter is upper-cased, any other letter lower-cased
RECURSIVE TitleFrom(_, _)
TitleFrom(str, afterLetter) ==
    IF Len(str) = 0 THEN ""
    ELSE LET c == CharAt(str, 1)
         IN (IF afterLetter THEN ToLower(c) ELSE ToUpper(c))
            \o TitleFrom(SubSeq(str, 2, Len(str)), IsLetter(c))

Title(str) == TitleFrom(str, FALSE)

---------------------------------------------------------------------------
(* calculate_risk_score (src/app.py 384-460) *)

\* a numeric literal of the source, in tenths
Lit(k) == 10 * k

danger_signs ==
    [ severe_headache |-> 15,
      blurred_vision |-> 15,
      convulsions |-> 25,
      severe_abdominal_pain |-> 20,
      vaginal_bleeding |-> 25,
      fever |-> 10,
      reduced_fetal_movement |-> 20,
      swelling_face_hands |-> 10,
      difficulty_breathing |-> 20,
      chest_pain |-> 15,
      severe_vomiting |-> 10,
      water_breaking_early |-> 25 ]

\* symptom.replace('_', ' ').title()
SymptomLabel(symptom) == Title(ReplaceUnderscores(symptom))

\* the labels of the table's tags, computed once
LabelTable == [symptom \in DOMAIN danger_signs |-> SymptomLabel(symptom)]

(* The running locals of a call: score, factors, and exc, the exception     *)
(* that ended it ("" while it runs).                                        *)
Start == [exc |-> "", score |-> 0, factors |-> <<>>]

\* mutant: the weight is added and the factor is not listed
AddUnlisted(acc, w, f) == [acc EXCEPT !.score = @ + w]

\* score += w; factors.append(f)
Add(acc, w, f) == [acc EXCEPT !.score = @ + w, !.factors = Append(@, f)]

Raise(acc, e) == [acc EXCEPT !.exc = e]

\* mutant: the membership test is dropped, an unknown tag is listed with weight 0
RECURSIVE ScoreSymptomsUnfiltered(_, _)
ScoreSymptomsUnfiltered(symptoms, acc) ==
    IF symptoms = <<>> THEN acc
    ELSE LET symptom == Head(symptoms)
         IN ScoreSymptomsUnfiltered(Tail(symptoms),
                IF symptom \in DOMAIN danger_signs
                THEN Add(acc, danger_signs[symptom], LabelTable[symptom])
                ELSE Add(acc, 0, SymptomLabel(symptom)))

\* for symptom in symptoms: if symptom in danger_signs: ...
RECURSIVE ScoreSymptoms(_, _)
ScoreSymptoms(symptoms, acc) ==
    IF symptoms = <<>> THEN acc
    ELSE LET symptom == Head(symptoms)
         IN ScoreSymptoms(Tail(symptoms),
                IF symptom \in DOMAIN danger_signs
                THEN Add(acc, danger_signs[symptom], LabelTable[symptom])
                ELSE acc)

\* mutant: the hypertension tier is tested before the severe tier
ScoreBloodPressureHighFirst(d, acc) ==
    LET bp_systolic == d.bp_systolic
        bp_diastolic == d.bp_diastolic
        severe == PyOr(PyGe(bp_systolic, Lit(160)), PyGe(bp_diastolic, Lit(110)))
        high == PyOr(PyGe(bp_systolic, Lit(140)), PyGe(bp_diastolic, Lit(90)))
        low == PyOr(PyLt(bp_systolic, Lit(90)), PyLt(bp_diastolic, Lit(60)))
    IN  IF acc.exc # "" \/ ~Truthy(bp_systolic) THEN acc
        ELSE IF high = "E" THEN Raise(acc, "TypeError")
        ELSE IF high = "T" THEN Add(acc, 15, "Hypertension")
        ELSE IF severe = "E" THEN Raise(acc, "TypeError")
        ELSE IF severe = "T" THEN Add(acc, 25, "Severe Hypertension")
        ELSE IF low = "E" THEN Raise(acc, "TypeError")
        ELSE IF low = "T" THEN Add(acc, 15, "Low Blood Pressure")
        ELSE acc

\* mutant: the low tier is an if of its own, not an elif of the tiers above it
ScoreBloodPressureLowApart(d, acc) ==
    LET bp_systolic == d.bp_systolic
        bp_diastolic == d.bp_diastolic
        severe == PyOr(PyGe(bp_systolic, Lit(160)), PyGe(bp_diastolic, Lit(110)))
        high == PyOr(PyGe(bp_systolic, Lit(140)), PyGe(bp_diastolic, Lit(90)))
        low == PyOr(PyLt(bp_systolic, Lit(90)), PyLt(bp_diastolic, Lit(60)))
        tier == IF severe = "E" THEN Raise(acc, "TypeError")
                ELSE IF severe = "T" THEN Add(acc, 25, "Severe Hypertension")
                ELSE IF high = "E" THEN Raise(acc, "TypeError")
                ELSE IF high = "T" THEN Add(acc, 15, "Hypertension")
                ELSE acc
    IN  IF acc.exc # "" \/ ~Truthy(bp_systolic) THEN acc
        ELSE IF tier.exc # "" THEN tier
        ELSE IF low = "E" THEN Raise(tier, "TypeError")
        ELSE IF low = "T" THEN Add(tier, 15, "Low Blood Pressure")
        ELSE tier

\* if bp_systolic: if ... elif ... elif ...
ScoreBloodPressure(d, acc) ==
    LET bp_systolic == d.bp_systolic
        bp_diastolic == d.bp_diastolic
        severe == PyOr(PyGe(bp_systolic, Lit(160)), PyGe(bp_diastolic, Lit(110)))
        high == PyOr(PyGe(bp_systolic, Lit(140)), PyGe(bp_diastolic, Lit(90)))
        low == PyOr(PyLt(bp_systolic, Lit(90)), PyLt(bp_diastolic, Lit(60)))
    IN  IF acc.exc # "" \/ ~Truthy(bp_systolic) THEN acc
        ELSE IF severe = "E" THEN Raise(acc, "TypeError")
        ELSE IF severe = "T" THEN Add(acc, 25, "Severe Hypertension")
        ELSE IF high = "E" THEN Raise(acc, "TypeError")
        ELSE IF high = "T" THEN Add(acc, 15, "Hypertension")
        ELSE IF low = "E" THEN Raise(acc, "TypeError")
        ELSE IF low = "T" THEN Add(acc, 15, "Low Blood Pressure")
        ELSE acc

\* if heart_rate: if heart_rate > 120 or heart_rate < 60: ...
ScoreHeartRate(d, acc) ==
    LET heart_rate == d.heart_rate
        abnormal == PyOr(PyGt(heart_rate, Lit(120)), PyLt(heart_rate, Lit(60)))
    IN  IF acc.exc # "" \/ ~Truthy(heart_rate) THEN acc
        ELSE IF abnormal = "E" THEN Raise(acc, "TypeError")
        ELSE IF abnormal = "T" THEN Add(acc, 10, "Abnormal Heart Rate")
        ELSE acc

\* mutant: the fever tiers are compared with > where the source has >=
ScoreTemperatureAbove(d, acc) ==
    LET temperature == d.temperature
        high == PyGt(temperature, 385)
        mild == PyGt(temperature, 375)
    IN  IF acc.exc # "" \/ ~Truthy(temperature) THEN acc
        ELSE IF high = "E" THEN Raise(acc, "TypeError")
        ELSE IF high = "T" THEN Add(acc, 15, "High Fever")
        ELSE IF mild = "E" THEN Raise(acc, "TypeError")
        ELSE IF mild = "T" THEN Add(acc, 5, "Mild Fever")
        ELSE acc

\* if temperature: if temperature >= 38.5: ... elif temperature >= 37.5: ...
ScoreTemperature(d, acc) ==
    LET temperature == d.temperature
        high == PyGe(temperature, 385)
        mild == PyGe(temperature, 375)
    IN  IF acc.exc # "" \/ ~Truthy(temperature) THEN acc
        ELSE IF high = "E" THEN Raise(acc, "TypeError")
        ELSE IF high = "T" THEN Add(acc, 15, "High Fever")
        ELSE IF mild = "E" THEN Raise(acc, "TypeError")
        ELSE IF mild = "T" THEN Add(acc, 5, "Mild Fever")
        ELSE acc

\* mutant: the second SpO2 tier is an if of its own, not an elif
ScoreSpO2BothTiers(d, acc) ==
    LET spo2 == d.spo2
        critical == PyLt(spo2, Lit(90))
        low == PyLt(spo2, Lit(95))
        first == IF critical = "T" THEN Add(acc, 25, "Critical Oxygen Level") ELSE acc
    IN  IF acc.exc # "" \/ ~Truthy(spo2) THEN acc
        ELSE IF critical = "E" THEN Raise(acc, "TypeError")
        ELSE IF low = "T" THEN Add(first, 10, "Low Oxygen Level")
        ELSE first

\* if spo2: if spo2 < 90: ... elif spo2 < 95: ...
ScoreSpO2(d, acc) ==
    LET spo2 == d.spo2
        critical == PyLt(spo2, Lit(90))
        low == PyLt(spo2, Lit(95))
    IN  IF acc.exc # "" \/ ~Truthy(spo2) THEN acc
        ELSE IF critical = "E" THEN Raise(acc, "TypeError")
        ELSE IF critical = "T" THEN Add(acc, 25, "Critical Oxygen Level")
        ELSE IF low = "E" THEN Raise(acc, "TypeError")
        ELSE IF low = "T" THEN Add(acc, 10, "Low Oxygen Level")
        ELSE acc

\* mutant: the breakpoints are compared with > where the source has >=
RiskLevelAbove(score) ==
    IF score > 50 THEN "emergency"
    ELSE IF score > 30 THEN "high_risk"
    ELSE IF score > 15 THEN "caution"
    ELSE "normal"

\* Determine risk level
RiskLevel(score) ==
    IF score >= 50 THEN "emergency"
    ELSE IF score >= 30 THEN "high_risk"
    ELSE IF score >= 15 THEN "caution"
    ELSE "normal"

\* a call that raised returns nothing
Raised(e) == [exc |-> e, score |-> 0, level |-> "", factors |-> <<>>]

\* return {'score': score, 'level': level, 'factors': factors}
Return(acc) ==
    IF acc.exc # "" THEN Raised(acc.exc)
    ELSE [exc |-> "", score |-> acc.score, level |-> RiskLevel(acc.score),
          factors |-> acc.factors]

\* mutant: the vitals are scored before the symptoms
calculate_risk_score_vitals_first(d) ==
    Return(ScoreSymptoms(d.symptoms, ScoreSpO2(d, ScoreTemperature(d, ScoreHeartRate(d,
           ScoreBloodPressure(d, Start))))))

calculate_risk_score(d) ==
    Return(ScoreSpO2(d, ScoreTemperature(d, ScoreHeartRate(d,
           ScoreBloodPressure(d, ScoreSymptoms(d.symptoms, Start))))))

---------------------------------------------------------------------------
(* check_vital_thresholds (src/app.py 820-873) *)

Alert(title, message, priority) ==
    [title |-> title, message |-> message, priority |-> priority]

NoAlerts == [exc |-> "", list |-> <<>>]

\* alerts.append(a)
AppendAlert(acc, a) == [acc EXCEPT !.list = Append(@, a)]

\* if bp_systolic: if ... elif ...
CheckBloodPressure(d, acc) ==
    LET bp_systolic == d.bp_systolic
        bp_diastolic == d.bp_diastolic
        reading == "BP reading: " \o PyFormat(bp_systolic) \o "/"
                   \o PyFormat(bp_diastolic) \o " mmHg"
        critical == PyOr(PyGe(bp_systolic, Lit(160)), PyGe(bp_diastolic, Lit(110)))
        high == PyOr(PyGe(bp_systolic, Lit(140)), PyGe(bp_diastolic, Lit(90)))
    IN  IF acc.exc # "" \/ ~Truthy(bp_systolic) THEN acc
        ELSE IF critical = "E" THEN Raise(acc, "TypeError")
        ELSE IF critical = "T"
             THEN AppendAlert(acc, Alert("Critical Blood Pressure",
                      reading \o " - Immediate attention required", "critical"))
        ELSE IF high = "E" THEN Raise(acc, "TypeError")
        ELSE IF high = "T"
             THEN AppendAlert(acc, Alert("High Blood Pressure",
                      reading \o " - Monitor closely", "high"))
        ELSE acc

\* mutant: the alerter takes the classifier's lower limit of 60
CheckHeartRateBelowSixty(d, acc) ==
    LET heart_rate == d.heart_rate
        abnormal == PyOr(PyGt(heart_rate, Lit(120)), PyLt(heart_rate, Lit(60)))
    IN  IF acc.exc # "" \/ ~Truthy(heart_rate) THEN acc
        ELSE IF abnormal = "E" THEN Raise(acc, "TypeError")
        ELSE IF abnormal = "T"
        THEN AppendAlert(acc, Alert("Abnormal Heart Rate",
                                    "Heart rate: " \o PyFormat(heart_rate)
                                        \o " bpm - Requires evaluation", "high"))
        ELSE acc

\* if heart_rate: if heart_rate > 120 or heart_rate < 50: ...
CheckHeartRate(d, acc) ==
    LET heart_rate == d.heart_rate
        abnormal == PyOr(PyGt(heart_rate, Lit(120)), PyLt(heart_rate, Lit(50)))
    IN  IF acc.exc # "" \/ ~Truthy(heart_rate) THEN acc
        ELSE IF abnormal = "E" THEN Raise(acc, "TypeError")
        ELSE IF abnormal = "T"
             THEN AppendAlert(acc, Alert("Abnormal Heart Rate",
                      "Heart rate: " \o PyFormat(heart_rate)
                      \o " bpm - Requires evaluation", "high"))
        ELSE acc

\* if spo2: if spo2 < 90: ... elif spo2 < 95: ...
CheckSpO2(d, acc) ==
    LET spo2 == d.spo2
        critical == PyLt(spo2, Lit(90))
        low == PyLt(spo2, Lit(95))
    IN  IF acc.exc # "" \/ ~Truthy(spo2) THEN acc
        ELSE IF critical = "E" THEN Raise(acc, "TypeError")
        ELSE IF critical = "T"
             THEN AppendAlert(acc, Alert("Critical Oxygen Level",
                      "SpO2: " \o PyFormat(spo2)
                      \o "% - Immediate medical attention required", "critical"))
        ELSE IF low = "E" THEN Raise(acc, "TypeError")
        ELSE IF low = "T"
             THEN AppendAlert(acc, Alert("Low Oxygen Level",
                      "SpO2: " \o PyFormat(spo2) \o "% - Monitor closely", "high"))
        ELSE acc

\* if temperature: if temperature >= 39: ...
CheckTemperature(d, acc) ==
    LET temperature == d.temperature
        high == PyGe(temperature, Lit(39))
    IN  IF acc.exc # "" \/ ~Truthy(temperature) THEN acc
        ELSE IF high = "E" THEN Raise(acc, "TypeError")
        ELSE IF high = "T"
             THEN AppendAlert(acc, Alert("High Fever",
                      "Temperature: " \o PyFormat(temperature)
                      \o "°C - Medical attention required", "high"))
        ELSE acc

\* return alerts; a call that raised returns nothing
ReturnAlerts(acc) == IF acc.exc # "" THEN [exc |-> acc.exc, list |-> <<>>] ELSE acc

\* mutant: the temperature block comes before the SpO2 block
check_vital_thresholds_temperature_first(d) ==
    ReturnAlerts(CheckSpO2(d, CheckTemperature(d, CheckHeartRate(d,
                 CheckBloodPressure(d, NoAlerts)))))

check_vital_thresholds(d) ==
    ReturnAlerts(CheckTemperature(d, CheckSpO2(d, CheckHeartRate(d,
                 CheckBloodPressure(d, NoAlerts)))))

---------------------------------------------------------------------------
(* Requests: the inputs the calls are checked on *)

\* longest symptoms list of a request
MaxSymptoms == 2

\* highest score handed to the level breakpoints on their own
MaxScore == 120

\* the tags a request may carry: the table's twelve and one outside it
InputTags == DOMAIN danger_signs \cup {"cough"}

SeqsUpTo(S, n) == UNION {[1..k -> S] : k \in 0..n}

Ints(S) == {PyInt(i) : i \in S}

Floats(S) == {PyFloat(i) : i \in S}

\* a field that is no reading: absent, or a string where a number belongs
NoReading == {PyNone, PyStr("high")}

(* Readings on both sides of every band of the two rule sets, the value 0,  *)
(* and the readings the specification's examples use.                       *)
SystolicInputs == NoReading \cup Ints({0, 89, 90, 120, 139, 140, 145, 159, 160, 170})

DiastolicInputs == NoReading \cup Ints({0, 59, 60, 70, 89, 90, 109, 110, 120})

HeartRateInputs == NoReading \cup Ints({0, 49, 50, 59, 60, 120, 121, 200})

TemperatureInputs == NoReading \cup Floats({0, 374, 375, 384, 385, 389, 390})

SpO2Inputs == NoReading \cup Ints({0, 88, 89, 90, 94, 95})

Request(symptoms, sys, dia, hr, temp, spo2) ==
    [symptoms |-> symptoms, bp_systolic |-> sys, bp_diastolic |-> dia,
     heart_rate |-> hr, temperature |-> temp, spo2 |-> spo2]

\* every combination of the readings, without symptoms
VitalsRequests ==
    {Request(<<>>, sys, dia, hr, temp, spo2) :
        sys \in SystolicInputs, dia \in DiastolicInputs, hr \in HeartRateInputs,
        temp \in TemperatureInputs, spo2 \in SpO2Inputs}

\* every symptoms list, with each vital absent or in one of its bands
SymptomRequests ==
    {Request(symptoms, bp[1], bp[2], hr, temp, spo2) :
        symptoms \in SeqsUpTo(InputTags, MaxSymptoms),
        bp \in {<<PyNone, PyNone>>, <<PyInt(145), PyInt(70)>>, <<PyInt(170), PyInt(120)>>},
        hr \in {PyNone, PyInt(121)},
        temp \in {PyNone, PyFloat(385)},
        spo2 \in {PyNone, PyInt(88)}}

NoRisk == [exc |-> "", score |-> 0, level |-> "", factors |-> <<>>]

NoRequest == Request(<<>>, PyNone, PyNone, PyNone, PyNone, PyNone)

\* a local variable that no statement has assigned yet
Unbound == PyStr("<unbound>")

NoRows == [mothers |-> {}, home_visits |-> {}]

NoResults == [success |-> <<>>, failed |-> <<>>]

NoResponse == [status |-> 0, body |-> "none"]

NoUser == [user_id |-> 0, role |-> ""]

\* the sync variables of a run that makes no sync_push request
SyncIdle ==
    /\ batch = <<>>
    /\ idx = 0
    /\ local_id = Unbound
    /\ results = NoResults
    /\ txn = "none"
    /\ pending = NoRows
    /\ store = NoRows
    /\ seq = [mothers |-> 0, home_visits |-> 0]
    /\ returned = <<>>
    /\ origin = NoResults
    /\ now = 0
    /\ user = NoUser
    /\ response = NoResponse

---------------------------------------------------------------------------
(* The classifier, called as create_triage calls it (src/app.py 326) *)

InitRisk ==
    /\ pc = "assess"
    /\ data \in VitalsRequests \cup SymptomRequests
    /\ risk = NoRisk
    /\ alerts = NoAlerts
    /\ calls = <<>>
    /\ SyncIdle

Assess ==
    /\ pc = "assess"
    /\ risk' = calculate_risk_score(data)
    /\ pc' = "assessed"
    /\ UNCHANGED <<data, alerts, calls>>
    /\ UNCHANGED syncVars

NextRisk == Assess

SpecRisk == InitRisk /\ [][NextRisk]_vars

(* The level breakpoints (src/app.py 450-458) on every score up to MaxScore *)

InitLevel ==
    /\ pc = "level"
    /\ data = NoRequest
    /\ \E score \in 0..MaxScore : risk = [NoRisk EXCEPT !.score = score]
    /\ alerts = NoAlerts
    /\ calls = <<>>
    /\ SyncIdle

DetermineLevel ==
    /\ pc = "level"
    /\ risk' = [risk EXCEPT !.level = RiskLevel(risk.score)]
    /\ pc' = "assessed"
    /\ UNCHANGED <<data, alerts, calls>>
    /\ UNCHANGED syncVars

NextLevel == DetermineLevel

SpecLevel == InitLevel /\ [][NextLevel]_vars

(* The alerter, called as record_nataband_vitals calls it (src/app.py 799) *)

InitAlert ==
    /\ pc = "check"
    /\ data \in VitalsRequests
    /\ risk = NoRisk
    /\ alerts = NoAlerts
    /\ calls = <<>>
    /\ SyncIdle

CheckThresholds ==
    /\ pc = "check"
    /\ alerts' = check_vital_thresholds(data)
    /\ pc' = "checked"
    /\ UNCHANGED <<data, risk, calls>>
    /\ UNCHANGED syncVars

NextAlert == CheckThresholds

SpecAlert == InitAlert /\ [][NextAlert]_vars

---------------------------------------------------------------------------
(* sync_push (src/app.py 1073-1135) over the tables of src/database.py      *)
(*                                                                         *)
(* psycopg.connect opens a connection that is not in autocommit mode: the   *)
(* statements of a request run in one transaction.  PostgreSQL aborts the   *)
(* transaction when a statement fails; every later statement then fails     *)
(* with InFailedSqlTransaction, and COMMIT rolls back.                      *)

\* longest batch of a request
MaxItems == 3

\* the mother the store holds before the request
SeededMother == [id |-> 1, full_name |-> PyStr("Ada"), registered_by |-> 1]

\* one user of each role of the users table
Users ==
    { [user_id |-> 1, role |-> "phc_admin"], [user_id |-> 2, role |-> "phc_staff"],
      [user_id |-> 3, role |-> "chw"], [user_id |-> 4, role |-> "mother"] }

\* item['data']: absent, or a mapping with the columns the constraints read
NoRecord == [mapping |-> FALSE, full_name |-> PyNone, mother_id |-> PyNone]

Record(full_name, mother_id) ==
    [mapping |-> TRUE, full_name |-> full_name, mother_id |-> mother_id]

\* an entry of items: a mapping, or a JSON value that is no mapping
Item(table, action, record) ==
    [mapping |-> TRUE, table |-> table, action |-> action, data |-> record,
     local_id |-> PyNone]

NotAMapping ==
    [mapping |-> FALSE, table |-> "", action |-> "", data |-> NoRecord,
     local_id |-> PyNone]

ItemShapes ==
    { Item("mothers", "create", Record(PyStr("Bisi"), PyNone)),
      Item("mothers", "create", Record(PyNone, PyNone)),
      Item("mothers", "create", NoRecord),
      Item("home_visits", "create", Record(PyNone, PyNone)),
      Item("home_visits", "create", Record(PyNone, PyInt(1))),
      Item("home_visits", "create", Record(PyNone, PyInt(9))),
      Item("home_visits", "create", NoRecord),
      Item("referrals", "create", Record(PyNone, PyInt(1))),
      Item("mothers", "update", Record(PyStr("Bisi"), PyNone)),
      NotAMapping }

\* the client numbers the items of a batch: local_id is the position
Numbered(shapes) ==
    [i \in DOMAIN shapes |->
        IF shapes[i].mapping THEN [shapes[i] EXCEPT !.local_id = PyInt(i)] ELSE shapes[i]]

Batches == {Numbered(shapes) : shapes \in SeqsUpTo(ItemShapes, MaxItems)}

(* The locals of the loop and the connection's state, as one record:        *)
(* exc is the exception that left the loop ("" while it runs).              *)
Locals(l, r, t, p, q, ret, org) ==
    [local_id |-> l, results |-> r, txn |-> t, pending |-> p, seq |-> q,
     returned |-> ret, origin |-> org, exc |-> ""]

\* the row an INSERT of the item writes, with the id the sequence hands out
RowOf(table, record, id, u) ==
    IF table = "mothers"
    THEN [id |-> id, full_name |-> record.full_name, registered_by |-> u.user_id]
    ELSE [id |-> id, mother_id |-> record.mother_id, chw_id |-> u.user_id]

(* The constraint an INSERT violates, "" when none: mothers.full_name is    *)
(* NOT NULL; home_visits.mother_id REFERENCES mothers(id).                  *)
Violation(table, record, loc, committed) ==
    IF table = "mothers"
    THEN (IF record.full_name = PyNone THEN "NotNullViolation" ELSE "")
    ELSE IF record.mother_id = PyNone THEN ""
    ELSE IF \E m \in committed.mothers \cup loc.pending.mothers :
                record.mother_id = PyInt(m.id)
    THEN ""
    ELSE "ForeignKeyViolation"

(* cur.execute(INSERT ... RETURNING id): the exception it raises ("" when   *)
(* none) and the connection after it.  A statement that fails on a          *)
(* constraint has drawn its id from the sequence already.                   *)
Execute(table, record, loc, u, committed) ==
    LET id == loc.seq[table] + 1
        bad == Violation(table, record, loc, committed)
    IN  IF loc.txn = "aborted"
        THEN [error |-> "InFailedSqlTransaction", id |-> 0, after |-> loc]
        ELSE IF bad # ""
        THEN [error |-> bad, id |-> 0,
              after |-> [loc EXCEPT !.txn = "aborted", !.seq[table] = id]]
        ELSE [error |-> "", id |-> id,
              after |-> [loc EXCEPT !.seq[table] = id,
                            !.pending[table] = @ \cup {RowOf(table, record, id, u)}]]

\* except Exception as e: results['failed'].append({'local_id': local_id, 'error': str(e)})
Failed(loc, e) ==
    IF loc.local_id = Unbound
    THEN [loc EXCEPT !.exc = "UnboundLocalError"]
    ELSE [loc EXCEPT !.results.failed =
                        Append(@, [local_id |-> loc.local_id, error |-> e]),
                     !.origin.failed = Append(@, Len(loc.returned))]

\* mutant: the entry is put at the head of the list (insert(0, ...)), not appended
SucceededAtHead(loc, server_id, pos) ==
    [loc EXCEPT !.results.success =
                    <<[local_id |-> loc.local_id, server_id |-> server_id]>> \o @,
                !.origin.success = <<pos>> \o @,
                !.returned[pos] = server_id]

\* results['success'].append({'local_id': local_id, 'server_id': server_id})
Succeeded(loc, server_id, pos) ==
    [loc EXCEPT !.results.success =
                    Append(@, [local_id |-> loc.local_id, server_id |-> server_id]),
                !.origin.success = Append(@, pos),
                !.returned[pos] = server_id]

\* one turn of the for loop, on the item at position pos
ProcessItem(item, pos, loc0, u, committed) ==
    LET loc == [loc0 EXCEPT !.local_id = item.local_id,
                            !.returned = Append(@, 0)]
        done == Execute(item.table, item.data, loc, u, committed)
    IN  IF ~item.mapping
        THEN Failed([loc0 EXCEPT !.returned = Append(@, 0)], "AttributeError")
        ELSE IF item.action = "create" /\ item.table \in {"mothers", "home_visits"}
        THEN IF ~item.data.mapping THEN Failed(loc, "AttributeError")
             ELSE IF done.error # "" THEN Failed(done.after, done.error)
             ELSE Succeeded(done.after, done.id, pos)
        ELSE loc

\* the loop over items[from..], while no exception leaves it
RECURSIVE RunBatch(_, _, _, _, _)
RunBatch(items, from, loc, u, committed) ==
    IF from > Len(items) \/ loc.exc # "" THEN loc
    ELSE RunBatch(items, from + 1, ProcessItem(items[from], from, loc, u, committed),
                  u, committed)

\* the store and its sequences before the request
InitialStore == [mothers |-> {SeededMother}, home_visits |-> {}]

InitialSeq == [mothers |-> 1, home_visits |-> 0]

InitSync ==
    /\ pc = "sync"
    /\ data = NoRequest
    /\ risk = NoRisk
    /\ alerts = NoAlerts
    /\ calls = <<>>
    /\ batch \in Batches
    /\ user \in Users
    /\ idx = 0
    /\ local_id = Unbound
    /\ results = NoResults
    /\ txn = "none"
    /\ pending = NoRows
    /\ store = InitialStore
    /\ seq = InitialSeq
    /\ returned = <<>>
    /\ origin = NoResults
    /\ now = 0
    /\ response = NoResponse

\* with get_db_connection() as conn: with conn.cursor() as cur:
SyncConnect ==
    /\ pc = "sync"
    /\ txn' = "open"
    /\ idx' = 1
    /\ pc' = "loop"
    /\ UNCHANGED <<batch, local_id, results, pending, store, seq, returned, origin, now,
                   user, response>>
    /\ UNCHANGED riskVars

\* psycopg.connect raises: the outer except answers
SyncConnectFails ==
    /\ pc = "sync"
    /\ response' = [status |-> 500, body |-> "error"]
    /\ pc' = "responded"
    /\ UNCHANGED <<batch, idx, local_id, results, txn, pending, store, seq, returned,
                   origin, now, user>>
    /\ UNCHANGED riskVars

(* One turn of the loop.  An exception that leaves the loop leaves the      *)
(* with block too: the connection rolls back and the outer except answers.  *)
SyncItem ==
    /\ pc = "loop"
    /\ idx <= Len(batch)
    /\ LET loc == ProcessItem(batch[idx], idx,
                      Locals(local_id, results, txn, pending, seq, returned, origin),
                      user, store)
       IN  /\ local_id' = loc.local_id
           /\ results' = loc.results
           /\ seq' = loc.seq
           /\ returned' = loc.returned
           /\ origin' = loc.origin
           /\ IF loc.exc # ""
              THEN /\ txn' = "none"
                   /\ pending' = NoRows
                   /\ response' = [status |-> 500, body |-> "error"]
                   /\ pc' = "responded"
                   /\ idx' = idx
              ELSE /\ txn' = loc.txn
                   /\ pending' = loc.pending
                   /\ response' = response
                   /\ pc' = pc
                   /\ idx' = idx + 1
    /\ UNCHANGED <<batch, store, now, user>>
    /\ UNCHANGED riskVars

\* conn.commit(); return jsonify(results)
SyncCommit ==
    /\ pc = "loop"
    /\ idx > Len(batch)
    /\ store' = IF txn = "open"
                THEN [t \in DOMAIN store |-> store[t] \cup pending[t]]
                ELSE store
    /\ pending' = NoRows
    /\ txn' = "none"
    /\ response' = [status |-> 200, body |-> "results"]
    /\ pc' = "responded"
    /\ UNCHANGED <<batch, idx, local_id, results, seq, returned, origin, now, user>>
    /\ UNCHANGED riskVars

NextSync == SyncConnect \/ SyncConnectFails \/ SyncItem \/ SyncCommit

SpecSync == InitSync /\ [][NextSync]_vars

---------------------------------------------------------------------------
(* create_triage (src/app.py 319-382) and record_nataband_vitals (src/app.py *)
(* 774-818) over the tables of src/database.py.  A request is handled in    *)
(* one transaction of its own connection: it commits whole or not at all.   *)

MaxTriages == 2     \* create_triage requests served
MaxReadings == 2    \* record_nataband_vitals requests served

\* str.upper()
RECURSIVE Upper(_)
Upper(str) ==
    IF Len(str) = 0 THEN ""
    ELSE ToUpper(CharAt(str, 1)) \o Upper(SubSeq(str, 2, Len(str)))

\* sep.join(list)
RECURSIVE Join(_, _)
Join(list, sep) ==
    IF list = <<>> THEN ""
    ELSE IF Len(list) = 1 THEN list[1]
    ELSE list[1] \o sep \o Join(Tail(list), sep)

\* a row of mothers, with the DEFAULT of risk_level
Mother(id) == [id |-> id, risk_level |-> "normal", last_triage_date |-> 0]

\* the rows of users: those of the callers, without a chw, or with a second one
UserTables ==
    { Users,
      {u \in Users : u.role # "chw"},
      Users \cup {[user_id |-> 5, role |-> "chw"]} }

NoTables ==
    [users |-> {}, mothers |-> {}, triage_records |-> <<>>, notifications |-> <<>>,
     chw_assignments |-> <<>>, nataband_readings |-> <<>>]

\* the tables before the first request
Tables(users) == [NoTables EXCEPT !.users = users, !.mothers = {Mother(1), Mother(2)}]

NoIds == [triage_records |-> 0, nataband_readings |-> 0]

\* request.json: the readings of Request and the mother they are of
For(mother_id, d) ==
    [mother_id |-> mother_id, symptoms |-> d.symptoms,
     bp_systolic |-> d.bp_systolic, bp_diastolic |-> d.bp_diastolic,
     heart_rate |-> d.heart_rate, temperature |-> d.temperature, spo2 |-> d.spo2]

\* no mother, a mother of the table, another one of the table, one not in it
MotherIds == {PyNone, PyInt(1), PyInt(2), PyInt(9)}

\* triages of every level, one that calculate_risk_score raises on, and one
\* with a reading that is no number in a field calculate_risk_score skips
TriageReadings ==
    { Request(<<>>, PyNone, PyNone, PyNone, PyNone, PyNone),
      Request(<<>>, PyInt(145), PyInt(70), PyNone, PyNone, PyNone),
      Request(<<"convulsions">>, PyNone, PyNone, PyNone, PyFloat(375), PyNone),
      Request(<<"convulsions", "fever">>, PyInt(170), PyInt(120), PyNone, PyNone, PyNone),
      Request(<<>>, PyInt(120), PyNone, PyNone, PyNone, PyNone),
      Request(<<"vaginal_bleeding", "convulsions">>, PyNone, PyStr("high"), PyNone,
              PyNone, PyNone) }

TriageRequests == {For(mother_id, d) : mother_id \in MotherIds, d \in TriageReadings}

\* readings with no alert, one, two and four alerts, one in the zero the
\* alerter skips, one it raises on, and one that is no number where it skips
NatabandReadings ==
    { Request(<<>>, PyInt(120), PyInt(80), PyInt(80), PyFloat(368), PyInt(98)),
      Request(<<>>, PyNone, PyNone, PyInt(121), PyNone, PyNone),
      Request(<<>>, PyInt(145), PyInt(70), PyNone, PyNone, PyInt(94)),
      Request(<<>>, PyInt(170), PyInt(120), PyInt(49), PyFloat(390), PyInt(88)),
      Request(<<>>, PyNone, PyNone, PyInt(0), PyNone, PyNone),
      Request(<<>>, PyInt(120), PyNone, PyInt(130), PyNone, PyNone),
      Request(<<>>, PyNone, PyStr("high"), PyInt(130), PyNone, PyNone) }

NatabandRequests ==
    {For(mother_id, d) : mother_id \in {PyNone, PyInt(1), PyInt(9)}, d \in NatabandReadings}

\* the columns of triage_records and nataband_readings a request fills
NumberColumns ==
    {"mother_id", "bp_systolic", "bp_diastolic", "heart_rate", "temperature", "spo2"}

\* an INTEGER or DECIMAL column takes NULL and numbers, and no str that is
\* not a numeral
ColumnTakes(v) == v.t # "str"

\* the statement an INSERT of the readings of d for d.mother_id fails with:
\* a value its column does not take; else a mother_id or a user that the
\* referenced table does not hold
InsertError(d, u, db) ==
    IF \E f \in NumberColumns : ~ColumnTakes(d[f])
    THEN "InvalidTextRepresentation"
    ELSE IF d.mother_id # PyNone /\ ~\E m \in db.mothers : m.id = d.mother_id.n
    THEN "ForeignKeyViolation"
    ELSE IF u # NoUser /\ ~\E r \in db.users : r.user_id = u.user_id
    THEN "ForeignKeyViolation"
    ELSE ""

\* nextval of a SERIAL id: taken by every INSERT that is executed, kept when
\* the INSERT or its transaction fails
NextId(q, table, error) ==
    IF error = "InvalidTextRepresentation" THEN q
    ELSE [q EXCEPT ![table] = @ + 1]

\* UPDATE mothers SET risk_level = %s, last_triage_date = %s WHERE id = %s
UpdateRiskLevel(mothers, mother_id, level, t) ==
    { IF mother_id # PyNone /\ m.id = mother_id.n
      THEN [m EXCEPT !.risk_level = level, !.last_triage_date = t] ELSE m : m \in mothers }

Notification(type, title, message, mother_id, priority) ==
    [type |-> type, title |-> title, message |-> message, mother_id |-> mother_id,
     priority |-> priority]

\* mutant: every alert of a triage is critical
TriagePriorityCritical(level) == "critical"

\* 'high' if risk_score['level'] == 'high_risk' else 'critical'
TriagePriority(level) == IF level = "high_risk" THEN "high" ELSE "critical"

\* INSERT INTO notifications ... 'high_risk_alert'
TriageNotification(d, risk_score) ==
    Notification("high_risk_alert",
                 "High Risk Alert - " \o Upper(risk_score.level),
                 "Mother requires immediate attention. Risk factors: "
                     \o Join(risk_score.factors, ", "),
                 d.mother_id, TriagePriority(risk_score.level))

\* SELECT id FROM users WHERE role = 'chw' LIMIT 1: any one chw, 0 for no row
LimitOneChw(users) ==
    IF \E r \in users : r.role = "chw"
    THEN {r.user_id : r \in {x \in users : x.role = "chw"}}
    ELSE {0}

\* mutant: the ON CONFLICT branch also takes the new chw and the new time
AssignChwAnew(assignments, mother_id, chw, level, t) ==
    IF chw = 0 THEN assignments
    ELSE IF mother_id # PyNone /\ \E k \in DOMAIN assignments :
                                      assignments[k].mother_id = mother_id
    THEN [k \in DOMAIN assignments |->
            IF assignments[k].mother_id = mother_id
            THEN [assignments[k] EXCEPT !.priority = level, !.chw_id = chw,
                                        !.assigned_at = t]
            ELSE assignments[k]]
    ELSE Append(assignments, [mother_id |-> mother_id, chw_id |-> chw, priority |-> level,
                              assigned_at |-> t])

\* INSERT INTO chw_assignments ... SELECT ... ON CONFLICT (mother_id) DO
\* UPDATE SET priority = EXCLUDED.priority; a NULL mother_id never conflicts
AssignChw(assignments, mother_id, chw, level, t) ==
    IF chw = 0 THEN assignments
    ELSE IF mother_id # PyNone /\ \E k \in DOMAIN assignments :
                                      assignments[k].mother_id = mother_id
    THEN [k \in DOMAIN assignments |->
            IF assignments[k].mother_id = mother_id
            THEN [assignments[k] EXCEPT !.priority = level]
            ELSE assignments[k]]
    ELSE Append(assignments, [mother_id |-> mother_id, chw_id |-> chw, priority |-> level,
                              assigned_at |-> t])

\* what a handler leaves: its answer, the tables, the ids handed out
Handled(status, body, id, risk_score, list, db, q) ==
    [response |-> [status |-> status, body |-> body, id |-> id,
                   risk_score |-> risk_score, alerts |-> list],
     risk_score |-> risk_score, alerts |-> list, store |-> db, seq |-> q]

\* the statements of create_triage that use the connection, in program order:
\* connect, INSERT triage_records, UPDATE mothers, INSERT notifications,
\* INSERT chw_assignments, commit
TriageStatements == 1..6

\* mutant: what the statements before the failure wrote stays
RollbackKeeps(db, written) == written

\* leaving `with get_db_connection() as conn` by an exception rolls back
Rollback(db, written) == db

\* @token_required, @role_required([...]) and the body of create_triage after
\* risk_score = calculate_risk_score(data); lost: the statement at which the
\* connection fails (0: none does); chw: the row LIMIT 1 gives; t: what
\* datetime.utcnow() gives
TriageWith(risk_score, d, u, db, q, lost, chw, t) ==
    LET error == InsertError(d, u, db)
        taken == NextId(q, "triage_records", error)
        triage_id == taken.triage_records
        level == risk_score.level
        alerting == level \in {"high_risk", "emergency"}
        inserted ==
            [db EXCEPT !.triage_records =
                Append(@, [id |-> triage_id, mother_id |-> d.mother_id,
                           risk_score |-> risk_score.score, risk_level |-> level,
                           assessed_by |-> u.user_id, created_at |-> t])]
        updated == [inserted EXCEPT !.mothers = UpdateRiskLevel(@, d.mother_id, level, t)]
        notified ==
            IF alerting
            THEN [updated EXCEPT
                    !.notifications = Append(@, TriageNotification(d, risk_score))]
            ELSE updated
        assigned ==
            IF alerting
            THEN [notified EXCEPT
                    !.chw_assignments = AssignChw(@, d.mother_id, chw, level, t)]
            ELSE notified
        \* what has been written when statement k is reached
        written(k) ==
            CASE k = 3 -> inserted
              [] k = 4 -> updated
              [] k = 5 -> notified
              [] k = 6 -> assigned
        failure(k, before) ==
            Handled(500, "OperationalError", 0, risk_score, <<>>, Rollback(db, before), taken)
    IN  IF u = NoUser THEN Handled(401, "Token is missing", 0, NoRisk, <<>>, db, q)
        ELSE IF u.role \notin {"phc_admin", "phc_staff", "chw"}
        THEN Handled(403, "Access denied", 0, NoRisk, <<>>, db, q)
        ELSE IF risk_score.exc # ""
        THEN Handled(500, risk_score.exc, 0, risk_score, <<>>, db, q)
        ELSE IF lost \in {1, 2}
        THEN Handled(500, "OperationalError", 0, risk_score, <<>>, db, q)
        ELSE IF error # "" THEN Handled(500, error, 0, risk_score, <<>>, db, taken)
        ELSE IF lost \in {3, 6} \/ (lost \in {4, 5} /\ alerting)
        THEN failure(lost, written(lost))
        ELSE Handled(201, "Triage completed", triage_id, risk_score, <<>>, assigned, taken)

create_triage(d, u, db, q, lost, chw, t) ==
    TriageWith(calculate_risk_score(d), d, u, db, q, lost, chw, t)

\* mutant: only the first alert is inserted
NotifyFirst(notifications, list, mother_id) ==
    IF list = <<>> THEN notifications
    ELSE Append(notifications,
                Notification("vital_alert", list[1].title, list[1].message, mother_id,
                             list[1].priority))

\* for alert in alerts: INSERT INTO notifications ... 'vital_alert'
RECURSIVE NotifyEach(_, _, _)
NotifyEach(notifications, list, mother_id) ==
    IF list = <<>> THEN notifications
    ELSE NotifyEach(Append(notifications,
                           Notification("vital_alert", list[1].title, list[1].message,
                                        mother_id, list[1].priority)),
                    Tail(list), mother_id)

\* @token_required and record_nataband_vitals, with checked for what
\* check_vital_thresholds(data) gives
VitalsWith(checked, d, u, db, q, connects) ==
    LET error == InsertError(d, NoUser, db)
        taken == NextId(q, "nataband_readings", error)
        reading_id == taken.nataband_readings
        inserted ==
            [db EXCEPT !.nataband_readings =
                Append(@, [id |-> reading_id, mother_id |-> d.mother_id,
                           heart_rate |-> d.heart_rate,
                           blood_pressure_systolic |-> d.bp_systolic,
                           blood_pressure_diastolic |-> d.bp_diastolic,
                           temperature |-> d.temperature, spo2 |-> d.spo2])]
        notified ==
            [inserted EXCEPT !.notifications = NotifyEach(@, checked.list, d.mother_id)]
    IN  IF u = NoUser THEN Handled(401, "Token is missing", 0, NoRisk, <<>>, db, q)
        ELSE IF ~connects THEN Handled(500, "OperationalError", 0, NoRisk, <<>>, db, q)
        ELSE IF error # "" THEN Handled(500, error, 0, NoRisk, <<>>, db, taken)
        ELSE IF checked.exc # ""
        THEN Handled(500, checked.exc, 0, NoRisk, <<>>, db, taken)
        ELSE Handled(201, "Vitals recorded", reading_id, NoRisk, checked.list,
                     notified, taken)

record_nataband_vitals(d, u, db, q, connects) ==
    VitalsWith(check_vital_thresholds(d), d, u, db, q, connects)

\* the handler returns: its answer is sent, its transaction is over
Answer(done) ==
    /\ risk' = done.risk_score
    /\ alerts' = [exc |-> "", list |-> done.alerts]
    /\ store' = done.store
    /\ seq' = done.seq
    /\ response' = done.response

\* the variables of sync_push in a run that makes no sync_push request
NoSync ==
    /\ batch = <<>>
    /\ idx = 0
    /\ local_id = Unbound
    /\ results = NoResults
    /\ txn = "none"
    /\ pending = NoRows
    /\ returned = <<>>
    /\ origin = NoResults
    /\ now = 0

InitRoutes ==
    /\ data = For(PyNone, NoRequest)
    /\ risk = NoRisk
    /\ alerts = NoAlerts
    /\ calls = <<>>
    /\ NoSync
    /\ \E users \in UserTables : store = Tables(users)
    /\ seq = NoIds
    /\ user \in Users \cup {NoUser}
    /\ response = Handled(0, "none", 0, NoRisk, <<>>, NoTables, NoIds).response

InitTriage == pc = "triage" /\ InitRoutes

CreateTriage ==
    /\ pc = "triage"
    /\ now < MaxTriages
    /\ now' = now + 1
    /\ \E d \in TriageRequests, lost \in {0} \cup TriageStatements,
          chw \in LimitOneChw(store.users) :
           /\ data' = d
           /\ Answer(create_triage(d, user, store, seq, lost, chw, now + 1))
    /\ UNCHANGED <<pc, user, calls, batch, idx, local_id, results, txn, pending,
                   returned, origin>>

NextTriage == CreateTriage

SpecTriage == InitTriage /\ [][NextTriage]_vars

InitNataband == pc = "nataband" /\ InitRoutes

RecordNatabandVitals ==
    /\ pc = "nataband"
    /\ now < MaxReadings
    /\ now' = now + 1
    /\ \E d \in NatabandRequests, connects \in BOOLEAN :
           /\ data' = d
           /\ Answer(record_nataband_vitals(d, user, store, seq, connects))
    /\ UNCHANGED <<pc, user, calls, batch, idx, local_id, results, txn, pending,
                   returned, origin>>

NextNataband == RecordNatabandVitals

SpecNataband == InitNataband /\ [][NextNataband]_vars

---------------------------------------------------------------------------
(* The emergency alert routes (src/app.py 592-686): create_emergency_alert *)
(* and update_emergency_alert, one request at a time on the table           *)
(* emergency_alerts (src/database.py 121-138).                              *)

MaxAlertRequests == 3    \* requests to the two emergency alert routes served

\* a key the request's JSON does not have
Absent == [t |-> "absent", n |-> 0, s |-> ""]

\* dict.get(key, default)
Get(v, default) == IF v = Absent THEN default ELSE v

\* COALESCE(a, b)
Coalesce(a, b) == IF a # PyNone THEN a ELSE b

\* CONSTRAINT valid_status
valid_status == {"active", "responding", "resolved", "cancelled"}

\* the tables the two routes use, before the first request
AlertTables ==
    [users |-> Users, mothers |-> {Mother(1)}, emergency_alerts |-> <<>>,
     notifications |-> <<>>]

NoAlertIds == [emergency_alerts |-> 0]

\* request.json of create_emergency_alert
AlertCreations ==
    [mother_id : {PyInt(1), PyInt(9)}, description : {Absent, PyStr("bleeding")}]

\* request.json of update_emergency_alert
AlertUpdates ==
    [status : {Absent, PyStr("responding"), PyStr("resolved"), PyStr("closed")},
     responder_id : {Absent, PyInt(9)},
     response_notes : {Absent, PyStr("seen")}]

\* <int:alert_id> of the URL
AlertIds == {1, 2}

\* what a route leaves: its answer, the tables, the ids handed out
AlertHandled(status, body, id, db, q) ==
    [response |-> [status |-> status, body |-> body, id |-> id], store |-> db, seq |-> q]

\* the row INSERT INTO emergency_alerts writes
EmergencyAlert(id, d, u, t) ==
    [id |-> id, mother_id |-> d.mother_id, status |-> PyStr("active"),
     responder_id |-> PyNone, response_notes |-> PyNone,
     created_by |-> u.user_id, created_at |-> t, resolved_at |-> PyNone]

EmergencyNotification(d) ==
    Notification("emergency_alert", "EMERGENCY ALERT",
                 "Emergency alert raised: "
                     \o Get(d.description, PyStr("Immediate attention required")).s,
                 d.mother_id, "critical")

create_emergency_alert(d, u, db, q, connects, t) ==
    LET alert_id == q.emergency_alerts + 1
        taken == [q EXCEPT !.emergency_alerts = alert_id]
        inserted == [db EXCEPT !.emergency_alerts = Append(@, EmergencyAlert(alert_id, d, u, t))]
        notified == [inserted EXCEPT !.notifications = Append(@, EmergencyNotification(d))]
    IN  IF u = NoUser THEN AlertHandled(401, "Token is missing", 0, db, q)
        ELSE IF ~connects THEN AlertHandled(500, "OperationalError", 0, db, q)
        ELSE IF \A m \in db.mothers : PyInt(m.id) # d.mother_id
             THEN AlertHandled(500, "ForeignKeyViolation", 0, db, taken)
        ELSE AlertHandled(201, "Emergency alert created", alert_id, notified, taken)

\* the row UPDATE emergency_alerts SET ... makes of a row
UpdatedAlert(row, d, u, t) ==
    [row EXCEPT
        !.status = Coalesce(Get(d.status, PyNone), @),
        !.responder_id = Coalesce(Get(d.responder_id, PyInt(u.user_id)), @),
        !.response_notes = Coalesce(Get(d.response_notes, PyNone), @),
        !.resolved_at = IF Get(d.status, PyNone) = PyStr("resolved") THEN PyInt(t)
                        ELSE PyNone]

update_emergency_alert(alert_id, d, u, db, q, connects, t) ==
    LET updated == [k \in DOMAIN db.emergency_alerts |->
                        IF db.emergency_alerts[k].id = alert_id
                        THEN UpdatedAlert(db.emergency_alerts[k], d, u, t)
                        ELSE db.emergency_alerts[k]]
        written == {k \in DOMAIN updated : updated[k].id = alert_id}
    IN  IF u = NoUser THEN AlertHandled(401, "Token is missing", 0, db, q)
        ELSE IF u.role \notin {"phc_admin", "phc_staff", "chw"}
             THEN AlertHandled(403, "Access denied", 0, db, q)
        ELSE IF ~connects THEN AlertHandled(500, "OperationalError", 0, db, q)
        ELSE IF \E k \in written : updated[k].status.s \notin valid_status
             THEN AlertHandled(500, "CheckViolation", 0, db, q)
        ELSE IF \E k \in written :
                    /\ updated[k].responder_id # PyNone
                    /\ \A r \in db.users : PyInt(r.user_id) # updated[k].responder_id
             THEN AlertHandled(500, "ForeignKeyViolation", 0, db, q)
        ELSE AlertHandled(200, "Alert updated successfully", 0,
                          [db EXCEPT !.emergency_alerts = updated], q)

\* the route returns: its answer is sent, its transaction is over
AlertAnswer(done) ==
    /\ store' = done.store
    /\ seq' = done.seq
    /\ response' = done.response

InitEmergency ==
    /\ pc = "emergency"
    /\ data = [route |-> "none"]
    /\ risk = NoRisk
    /\ alerts = NoAlerts
    /\ calls = <<>>
    /\ NoSync
    /\ store = AlertTables
    /\ seq = NoAlertIds
    /\ user \in Users \cup {NoUser}
    /\ response = AlertHandled(0, "none", 0, AlertTables, NoAlertIds).response

CreateEmergencyAlert ==
    /\ pc = "emergency"
    /\ now < MaxAlertRequests
    /\ now' = now + 1
    /\ \E d \in AlertCreations, connects \in BOOLEAN :
           /\ data' = [route |-> "create_emergency_alert", alert_id |-> 0, json |-> d]
           /\ AlertAnswer(create_emergency_alert(d, user, store, seq, connects, now + 1))
    /\ UNCHANGED <<pc, user, risk, alerts, calls, batch, idx, local_id, results, txn,
                   pending, returned, origin>>

UpdateEmergencyAlert ==
    /\ pc = "emergency"
    /\ now < MaxAlertRequests
    /\ now' = now + 1
    /\ \E alert_id \in AlertIds, d \in AlertUpdates, connects \in BOOLEAN :
           /\ data' = [route |-> "update_emergency_alert", alert_id |-> alert_id,
                       json |-> d]
           /\ AlertAnswer(update_emergency_alert(alert_id, d, user, store, seq,
                                                 connects, now + 1))
    /\ UNCHANGED <<pc, user, risk, alerts, calls, batch, idx, local_id, results, txn,
                   pending, returned, origin>>

NextEmergency == CreateEmergencyAlert \/ UpdateEmergencyAlert

SpecEmergency == InitEmergency /\ [][NextEmergency]_vars

---------------------------------------------------------------------------
(* Calls of calculate_risk_score (src/app.py 384-460) and of                *)
(* check_vital_thresholds (src/app.py 820-873) running side by side, as the *)
(* threads of the server run them: a step is one block of statements.       *)

MaxCalls == 2    \* calls that run side by side

Callers == 1..MaxCalls

\* the arguments of the calls: every block adds, none adds, a block raises
ConcurrentRequests ==
    { Request(<<"fever">>, PyInt(170), PyInt(120), PyInt(121), PyFloat(390), PyInt(88)),
      Request(<<>>, PyInt(120), PyInt(80), PyInt(80), PyFloat(368), PyInt(98)),
      Request(<<"convulsions">>, PyInt(120), PyNone, PyNone, PyNone, PyInt(94)) }

\* a call before its first statement
Frame(fn, d) ==
    [fn |-> fn, data |-> d, given |-> d, stage |-> "call", score |-> Start,
     list |-> NoAlerts, result |-> NoAlerts, overlapped |-> FALSE]

\* mutant: score, factors and alerts are module-level names, one for all calls
SharedLocals(p) == 1

\* score, factors (385-386) and alerts (821) are local variables: each call
\* has its own
OwnLocals(p) == p

\* the blocks of a function in program order, then "return", then "done"
After(fn, stage) ==
    IF fn = "calculate_risk_score"
    THEN CASE stage = "call" -> "symptoms"
           [] stage = "symptoms" -> "bp"
           [] stage = "bp" -> "heart_rate"
           [] stage = "heart_rate" -> "temperature"
           [] stage = "temperature" -> "spo2"
           [] stage = "spo2" -> "return"
           [] stage = "return" -> "done"
    ELSE CASE stage = "call" -> "bp"
           [] stage = "bp" -> "heart_rate"
           [] stage = "heart_rate" -> "spo2"
           [] stage = "spo2" -> "temperature"
           [] stage = "temperature" -> "return"
           [] stage = "return" -> "done"

ScoreBlock(stage, d, acc) ==
    CASE stage = "symptoms" -> ScoreSymptoms(d.symptoms, acc)
      [] stage = "bp" -> ScoreBloodPressure(d, acc)
      [] stage = "heart_rate" -> ScoreHeartRate(d, acc)
      [] stage = "temperature" -> ScoreTemperature(d, acc)
      [] stage = "spo2" -> ScoreSpO2(d, acc)

CheckBlock(stage, d, acc) ==
    CASE stage = "bp" -> CheckBloodPressure(d, acc)
      [] stage = "heart_rate" -> CheckHeartRate(d, acc)
      [] stage = "spo2" -> CheckSpO2(d, acc)
      [] stage = "temperature" -> CheckTemperature(d, acc)

\* another call is between its first statement and its return
Overlaps(p) == \E q \in Callers \ {p} : calls[q].stage \notin {"call", "done"}

\* caller p is at stage and moves to the next one
Advance(p, stage, frames) ==
    [frames EXCEPT ![p].stage = After(frames[p].fn, stage),
                   ![p].overlapped = @ \/ Overlaps(p)]

InitCalls ==
    /\ pc = "calls"
    /\ data = NoRequest
    /\ risk = NoRisk
    /\ alerts = NoAlerts
    /\ calls \in [Callers ->
                    {Frame(fn, d) : fn \in {"calculate_risk_score", "check_vital_thresholds"},
                                    d \in ConcurrentRequests}]
    /\ SyncIdle

\* score = 0; factors = [] or alerts = []
Call(p) ==
    /\ calls[p].stage = "call"
    /\ calls' = Advance(p, "call",
                    IF calls[p].fn = "calculate_risk_score"
                    THEN [calls EXCEPT ![OwnLocals(p)].score = Start]
                    ELSE [calls EXCEPT ![OwnLocals(p)].list = NoAlerts])
    /\ UNCHANGED <<pc, data, risk, alerts>>
    /\ UNCHANGED syncVars

\* one block of calculate_risk_score
ScoreStep(p) ==
    /\ calls[p].fn = "calculate_risk_score"
    /\ calls[p].stage \in {"symptoms", "bp", "heart_rate", "temperature", "spo2"}
    /\ calls' = Advance(p, calls[p].stage,
                    [calls EXCEPT ![OwnLocals(p)].score =
                        ScoreBlock(calls[p].stage, calls[p].data, @)])
    /\ UNCHANGED <<pc, data, risk, alerts>>
    /\ UNCHANGED syncVars

\* one block of check_vital_thresholds
CheckStep(p) ==
    /\ calls[p].fn = "check_vital_thresholds"
    /\ calls[p].stage \in {"bp", "heart_rate", "spo2", "temperature"}
    /\ calls' = Advance(p, calls[p].stage,
                    [calls EXCEPT ![OwnLocals(p)].list =
                        CheckBlock(calls[p].stage, calls[p].data, @)])
    /\ UNCHANGED <<pc, data, risk, alerts>>
    /\ UNCHANGED syncVars

\* return {'score': ..., 'level': ..., 'factors': ...} or return alerts
ReturnCall(p) ==
    /\ calls[p].stage = "return"
    /\ calls' = Advance(p, "return",
                    [calls EXCEPT ![p].result =
                        IF calls[p].fn = "calculate_risk_score"
                        THEN Return(calls[OwnLocals(p)].score)
                        ELSE ReturnAlerts(calls[OwnLocals(p)].list)])
    /\ UNCHANGED <<pc, data, risk, alerts>>
    /\ UNCHANGED syncVars

NextCalls == \E p \in Callers : Call(p) \/ ScoreStep(p) \/ CheckStep(p) \/ ReturnCall(p)

SpecCalls == InitCalls /\ [][NextCalls]_vars

---------------------------------------------------------------------------
(* Properties *)

Range(f) == {f[i] : i \in DOMAIN f}

\* sub occurs in str
Contains(str, sub) ==
    \E i \in 1..(Len(str) - Len(sub) + 1) : SubSeq(str, i, i + Len(sub) - 1) = sub

Vitals == {"bp_systolic", "bp_diastolic", "heart_rate", "temperature", "spo2"}

\* the request says nothing but the fields of keep
OnlyPresent(d, keep) ==
    /\ d.symptoms = <<>>
    /\ \A f \in Vitals \ keep : d[f] = PyNone

Severity(level) ==
    CASE level = "normal" -> 0
      [] level = "caution" -> 1
      [] level = "high_risk" -> 2
      [] level = "emergency" -> 3

(* C1: the level is decided by the score alone, with the breakpoints 15, 30 *)
(* and 50: at least 50 is emergency, 30 to 49 high_risk, 15 to 29 caution,  *)
(* below 15 normal; a larger score never gives a less severe level; and     *)
(* 14, 15, 29, 30, 49, 50 give normal, caution, caution, high_risk,         *)
(* high_risk, emergency.                                                    *)
C1_LevelBreakpoints ==
    pc = "assessed" =>
        LET score == risk.score
            level == risk.level
        IN  /\ level = "emergency" <=> score >= 50
            /\ level = "high_risk" <=> (30 <= score /\ score < 50)
            /\ level = "caution" <=> (15 <= score /\ score < 30)
            /\ level = "normal" <=> score < 15
            /\ \A larger \in score..MaxScore :
                   Severity(RiskLevel(larger)) >= Severity(level)
            /\ score = 14 => level = "normal"
            /\ score = 15 => level = "caution"
            /\ score = 29 => level = "caution"
            /\ score = 30 => level = "high_risk"
            /\ score = 49 => level = "high_risk"
            /\ score = 50 => level = "emergency"

C1_Witness == pc = "assessed" /\ risk.score = 49 /\ risk.level = "high_risk"

RECURSIVE WeightSum(_)
WeightSum(tags) ==
    IF tags = {} THEN 0
    ELSE LET tag == CHOOSE x \in tags : TRUE
         IN danger_signs[tag] + WeightSum(tags \ {tag})

NoDuplicates(list) == Cardinality(Range(list)) = Len(list)

(* C2: for a set of symptoms (a list without repeats) and no vitals at all, *)
(* the score is the sum of the table weights of the symptoms that are in    *)
(* the table; a symptom outside the table adds nothing to the score and no  *)
(* entry to factors.                                                        *)
C2_SymptomWeights ==
    (/\ pc = "assessed"
     /\ \A f \in Vitals : data[f] = PyNone
     /\ NoDuplicates(data.symptoms)) =>
        LET known == Range(data.symptoms) \cap DOMAIN danger_signs
        IN  /\ risk.exc = ""
            /\ risk.score = WeightSum(known)
            /\ Len(risk.factors) = Cardinality(known)
            /\ Range(risk.factors) = {LabelTable[tag] : tag \in known}

C2_Witness ==
    /\ pc = "assessed"
    /\ \A f \in Vitals : data[f] = PyNone
    /\ data.symptoms = <<"cough", "convulsions">>
    /\ risk.score = 25
    /\ risk.factors = <<"Convulsions">>

SevereOnly == Request(<<>>, PyInt(170), PyInt(120), PyNone, PyNone, PyNone)

(* C3 as stated: no symptoms and only systolic 170 and diastolic 120 give   *)
(* level emergency, and factors contain Severe Hypertension.                *)
C3_Original ==
    (pc = "assessed" /\ data = SevereOnly) =>
        /\ risk.level = "emergency"
        /\ "Severe Hypertension" \in Range(risk.factors)

(* C3 amended: no symptoms and only systolic 170 and diastolic 120 give     *)
(* score 25 and so level caution, and factors contain Severe Hypertension.  *)
C3_SevereOnlyIsCaution ==
    (pc = "assessed" /\ data = SevereOnly) =>
        /\ risk.exc = ""
        /\ risk.score = 25
        /\ risk.level = "caution"
        /\ "Severe Hypertension" \in Range(risk.factors)

C3_Witness ==
    pc = "assessed" /\ data = SevereOnly /\ risk.factors = <<"Severe Hypertension">>

BloodPressureLabels == {"Severe Hypertension", "Hypertension", "Low Blood Pressure"}

\* the factors of a result that are blood-pressure factors, in order
BloodPressureFactors(factors) == SelectSeq(factors, LAMBDA f : f \in BloodPressureLabels)

WithoutBloodPressure(d) == [d EXCEPT !.bp_systolic = PyNone, !.bp_diastolic = PyNone]

(* C4: for present non-zero systolic and diastolic readings exactly one     *)
(* blood-pressure tier applies, the most severe that matches: systolic >=   *)
(* 160 or diastolic >= 110 adds 25 and Severe Hypertension; otherwise       *)
(* systolic >= 140 or diastolic >= 90 adds 15 and Hypertension; otherwise   *)
(* systolic < 90 or diastolic < 60 adds 15 and Low Blood Pressure;          *)
(* otherwise nothing.  With systolic absent no tier applies whatever the    *)
(* diastolic field holds.  145/70 alone gives score 15 and level caution.   *)
C4_BloodPressureTiers ==
    pc = "assessed" =>
        LET sys == data.bp_systolic
            dia == data.bp_diastolic
            rest == calculate_risk_score(WithoutBloodPressure(data))
            added == risk.score - rest.score
            labels == BloodPressureFactors(risk.factors)
        IN  /\ (/\ sys.t = "int" /\ sys.n # 0
                /\ dia.t = "int" /\ dia.n # 0
                /\ risk.exc = "") =>
                   IF sys.n >= 160 \/ dia.n >= 110
                   THEN added = 25 /\ labels = <<"Severe Hypertension">>
                   ELSE IF sys.n >= 140 \/ dia.n >= 90
                   THEN added = 15 /\ labels = <<"Hypertension">>
                   ELSE IF sys.n < 90 \/ dia.n < 60
                   THEN added = 15 /\ labels = <<"Low Blood Pressure">>
                   ELSE added = 0 /\ labels = <<>>
            /\ sys = PyNone => risk = rest /\ labels = <<>>
            /\ data = Request(<<>>, PyInt(145), PyInt(70), PyNone, PyNone, PyNone) =>
                   risk.exc = "" /\ risk.score = 15 /\ risk.level = "caution"

C4_Witness ==
    /\ pc = "assessed"
    /\ data = Request(<<>>, PyInt(145), PyInt(59), PyInt(121), PyNone, PyNone)
    /\ risk.factors = <<"Hypertension", "Abnormal Heart Rate">>
    /\ risk.score = 25

(* C5: calculate_risk_score never raises, whichever of the five vital       *)
(* fields are present (as numbers) and whichever are absent.                *)
C5_NeverRaises ==
    (pc = "assessed" /\ \A f \in Vitals : data[f] = PyNone \/ IsNumber(data[f])) =>
        risk.exc = ""

\* the request with every vital that is not a number taken out
Sanitized(d) ==
    [f \in DOMAIN d |-> IF f \in Vitals /\ ~IsNumber(d[f]) THEN PyNone ELSE d[f]]

(* C6: a vital that is not a number is treated like an absent one: both the *)
(* classifier and the alerter return what they return for the request       *)
(* without that field, whenever they return for that request.               *)
C6_MalformedAsAbsent ==
    pc = "assessed" =>
        /\ calculate_risk_score(Sanitized(data)).exc = "" =>
               risk = calculate_risk_score(Sanitized(data))
        /\ check_vital_thresholds(Sanitized(data)).exc = "" =>
               check_vital_thresholds(data) = check_vital_thresholds(Sanitized(data))

(* C7: when an SpO2 reading is the only field present, a reading below 90   *)
(* gives exactly one alert, of priority critical, whose message holds the   *)
(* reading; a reading from 90 to 94 gives exactly one alert of priority     *)
(* high; a reading of 95 or more gives none.                                *)
C7_SpO2Only ==
    (pc = "checked" /\ OnlyPresent(data, {"spo2"}) /\ data.spo2.t = "int") =>
        LET spo2 == data.spo2.n
            list == alerts.list
        IN  /\ alerts.exc = ""
            /\ spo2 < 90 =>
                   /\ Len(list) = 1
                   /\ list[1].priority = "critical"
                   /\ Contains(list[1].message, ToString(spo2))
            /\ (90 <= spo2 /\ spo2 <= 94) =>
                   Len(list) = 1 /\ list[1].priority = "high"
            /\ spo2 >= 95 => list = <<>>

(* C8: a request without vital fields gives no alert; when a heart rate is  *)
(* the only field present, one outside [50, 120] gives exactly one alert,   *)
(* of priority high, and one inside gives none.                             *)
C8_HeartRateOnly ==
    (pc = "checked" /\ OnlyPresent(data, {"heart_rate"})) =>
        LET heart_rate == data.heart_rate
            list == alerts.list
        IN  /\ heart_rate = PyNone => alerts = NoAlerts
            /\ heart_rate.t = "int" =>
                   /\ alerts.exc = ""
                   /\ IF heart_rate.n < 50 \/ heart_rate.n > 120
                      THEN Len(list) = 1 /\ list[1].priority = "high"
                      ELSE list = <<>>

\* the vital an alert is about, by its title: 1 blood pressure .. 4 temperature
AlertVital(alert) ==
    CASE alert.title \in {"Critical Blood Pressure", "High Blood Pressure"} -> 1
      [] alert.title = "Abnormal Heart Rate" -> 2
      [] alert.title \in {"Critical Oxygen Level", "Low Oxygen Level"} -> 3
      [] alert.title = "High Fever" -> 4

(* C9: with all five fields present and non-zero the alerter returns at     *)
(* most one alert per vital, in the order blood pressure, heart rate, SpO2, *)
(* temperature; blood pressure alerts critical when systolic >= 160 or      *)
(* diastolic >= 110, else high when systolic >= 140 or diastolic >= 90,     *)
(* else not at all; temperature alerts high when >= 39 and else not at all. *)
C9_OneAlertPerVital ==
    (pc = "checked" /\ \A f \in Vitals : IsNumber(data[f]) /\ data[f].n # 0) =>
        LET list == alerts.list
            about(v) == {i \in 1..Len(list) : AlertVital(list[i]) = v}
            sys == Tenths(data.bp_systolic)
            dia == Tenths(data.bp_diastolic)
            temp == Tenths(data.temperature)
        IN  /\ alerts.exc = ""
            /\ Len(list) <= 4
            /\ \A i, j \in 1..Len(list) :
                   i < j => AlertVital(list[i]) < AlertVital(list[j])
            /\ IF sys >= 1600 \/ dia >= 1100
               THEN \E i \in about(1) : list[i].priority = "critical"
               ELSE IF sys >= 1400 \/ dia >= 900
               THEN \E i \in about(1) : list[i].priority = "high"
               ELSE about(1) = {}
            /\ IF temp >= 390
               THEN \E i \in about(4) : list[i].priority = "high"
               ELSE about(4) = {}

C9_Witness ==
    /\ pc = "checked"
    /\ data = Request(<<>>, PyInt(89), PyInt(110), PyInt(49), PyFloat(390), PyInt(94))
    /\ Len(alerts.list) = 4
    /\ alerts.list[1].priority = "critical"
    /\ alerts.list[4].title = "High Fever"

\* a create of a table sync_push knows
KnownCreate(item) ==
    item.mapping /\ item.action = "create" /\ item.table \in {"mothers", "home_visits"}

\* what the results say of the item numbered j: "success", "failed" or "none"
Outcome(res, j) ==
    IF \E k \in DOMAIN res.success : res.success[k].local_id = PyInt(j) THEN "success"
    ELSE IF \E k \in DOMAIN res.failed : res.failed[k].local_id = PyInt(j) THEN "failed"
    ELSE "none"

\* the entries of a list of results that carry the local_id j
EntriesOf(list, j) == {k \in DOMAIN list : list[k].local_id = PyInt(j)}

Without(items, i) == SubSeq(items, 1, i - 1) \o SubSeq(items, i + 1, Len(items))

\* the results of the same request with other items
ResultsFor(items) ==
    RunBatch(items, 1,
             Locals(Unbound, NoResults, "open", NoRows, InitialSeq, <<>>, NoResults),
             user, InitialStore).results

(* C10: in a batch of creates of mothers and home_visits every item gets    *)
(* exactly one result entry: {local_id, server_id} with the id its INSERT   *)
(* returned, or {local_id, error} when its INSERT failed; and an item after *)
(* a failed item gets the outcome it has in the batch without that item.    *)
C10_EveryItemItsOutcome ==
    (/\ pc = "responded"
     /\ response.status = 200
     /\ \A i \in DOMAIN batch : KnownCreate(batch[i])) =>
        \A j \in DOMAIN batch :
            /\ Cardinality(EntriesOf(results.success, j))
                 + Cardinality(EntriesOf(results.failed, j)) = 1
            /\ returned[j] # 0 =>
                   \E k \in EntriesOf(results.success, j) :
                       results.success[k].server_id = returned[j]
            /\ returned[j] = 0 => EntriesOf(results.failed, j) # {}
            /\ \A i \in 1..(j - 1) :
                   Outcome(results, i) = "failed" =>
                       Outcome(results, j) = Outcome(ResultsFor(Without(batch, i)), j)

\* a list of batch positions is in input order
InOrder(positions) ==
    \A a, b \in DOMAIN positions : a < b => positions[a] < positions[b]

(* C11 as stated: the results of any two processed items are in the output  *)
(* in their input order, also when one succeeded and the other failed.  The *)
(* output is a mapping of two lists; the statement is taken for either      *)
(* order in which the two lists can be read.                                *)
C11_Original ==
    (pc = "responded" /\ response.status = 200) =>
        \/ InOrder(origin.success \o origin.failed)
        \/ InOrder(origin.failed \o origin.success)

(* C11 amended: the entries of the success list are in input order and the  *)
(* entries of the failed list are in input order, one entry at most for an  *)
(* item; each entry of the success list carries the local_id of its item.   *)
C11_OrderWithinEachList ==
    /\ Len(origin.success) = Len(results.success)
    /\ Len(origin.failed) = Len(results.failed)
    /\ InOrder(origin.success)
    /\ InOrder(origin.failed)
    /\ \A k \in DOMAIN origin.success :
           results.success[k].local_id = batch[origin.success[k]].local_id
    /\ Range(origin.success) \cap Range(origin.failed) = {}

C11_Witness ==
    /\ pc = "responded"
    /\ response.status = 200
    /\ origin.success = <<1, 3>>
    /\ origin.failed = <<2>>

(* C12: every item reported in the success list has its row persisted in    *)
(* the store when the call returns: its server_id is the id of a committed  *)
(* row of its table, whatever failed before or after it in the batch.       *)
C12_SuccessIsPersisted ==
    (pc = "responded" /\ response.status = 200) =>
        \A k \in DOMAIN results.success :
            \E row \in store[batch[origin.success[k]].table] :
                row.id = results.success[k].server_id

\* the locals of the same request at the end of the loop over other items
LocalsFor(items) ==
    RunBatch(items, 1,
             Locals(Unbound, NoResults, "open", NoRows, InitialSeq, <<>>, NoResults),
             user, InitialStore)

\* an item of a table/action combination that sync_push does not recognise
Unrecognised(item) ==
    item.mapping /\ ~(item.action = "create" /\ item.table \in {"mothers", "home_visits"})

(* C13: an item whose table/action combination is not recognised is         *)
(* silently skipped: no INSERT is made for it, no entry of the success list *)
(* or of the failed list is its own or carries its local_id, and the other  *)
(* items get the results they get in the batch without it.                  *)
C13_UnrecognisedIsSkipped ==
    (pc = "responded" /\ idx > 0) =>
        \A p \in 1..Len(returned) :
            Unrecognised(batch[p]) =>
                /\ returned[p] = 0
                /\ p \notin Range(origin.success) \cup Range(origin.failed)
                /\ EntriesOf(results.success, p) = {}
                /\ EntriesOf(results.failed, p) = {}
                /\ LocalsFor(Without(batch, p)).results = results
                /\ (LocalsFor(Without(batch, p)).exc = "") = (response.status = 200)

(* C14: sync_push answers with the batch-level error only when the          *)
(* connection could not be obtained; once the loop over the items has       *)
(* started, no item makes the answer a batch-level error.                   *)
C14_BatchErrorOnlyWithoutConnection ==
    (pc = "responded" /\ response.status = 500) => idx = 0

\* a list with every repeat of an element after its first occurrence removed
RECURSIVE Deduplicated(_)
Deduplicated(list) ==
    IF list = <<>> THEN <<>>
    ELSE LET front == Deduplicated(SubSeq(list, 1, Len(list) - 1))
             last == list[Len(list)]
         IN  IF last \in Range(front) THEN front ELSE Append(front, last)

(* C18: duplicates in the symptoms do not matter: the result for a symptoms *)
(* collection is the result for the collection with every tag once.         *)
C18_DuplicatesIrrelevant ==
    pc = "assessed" =>
        risk = calculate_risk_score([data EXCEPT !.symptoms = Deduplicated(@)])

\* the factors of a result that are among the given labels, in order
FactorsAmong(factors, labels) == SelectSeq(factors, LAMBDA f : f \in labels)

\* the alerts of a list that have the given title
AlertsTitled(list, title) == SelectSeq(list, LAMBDA a : a.title = title)

(* C19: a reading present with the value 0 is scored like any other         *)
(* reading: heart_rate 0 adds 10 and Abnormal Heart Rate and raises a high  *)
(* alert; spo2 0 adds 25 and Critical Oxygen Level and raises a critical    *)
(* alert; systolic 0 with a diastolic reading adds a blood-pressure factor. *)
C19_ZeroIsScored ==
    (pc = "assessed" /\ risk.exc = "") =>
        LET checked == check_vital_thresholds(data)
            without(f) == calculate_risk_score([data EXCEPT ![f] = PyNone])
        IN  /\ data.heart_rate = PyInt(0) =>
                /\ risk.score = without("heart_rate").score + 10
                /\ "Abnormal Heart Rate" \in Range(risk.factors)
                /\ checked.exc = "" =>
                       \E a \in Range(AlertsTitled(checked.list, "Abnormal Heart Rate")) :
                           a.priority = "high"
            /\ data.spo2 = PyInt(0) =>
                /\ risk.score = without("spo2").score + 25
                /\ "Critical Oxygen Level" \in Range(risk.factors)
                /\ checked.exc = "" =>
                       \E a \in Range(AlertsTitled(checked.list, "Critical Oxygen Level")) :
                           a.priority = "critical"
            /\ (data.bp_systolic = PyInt(0) /\ IsNumber(data.bp_diastolic)) =>
                   BloodPressureFactors(risk.factors) # <<>>

\* the reading is present, a number and not zero
NonZero(v) == IsNumber(v) /\ v.n # 0

(* C20: for every present non-zero reading: a heart rate above 120 or below *)
(* 60 adds 10 and Abnormal Heart Rate, any other adds nothing; a            *)
(* temperature of at least 38.5 adds 15 and High Fever, else one of at      *)
(* least 37.5 adds 5 and Mild Fever, else nothing; an SpO2 below 90 adds 25 *)
(* and Critical Oxygen Level, else one below 95 adds 10 and Low Oxygen      *)
(* Level, else nothing.                                                     *)
C20_VitalBands ==
    (pc = "assessed" /\ risk.exc = "") =>
        LET without(f) == calculate_risk_score([data EXCEPT ![f] = PyNone])
            added(f) == risk.score - without(f).score
            hr == Tenths(data.heart_rate)
            temp == Tenths(data.temperature)
            spo2 == Tenths(data.spo2)
            hrLabels == FactorsAmong(risk.factors, {"Abnormal Heart Rate"})
            tempLabels == FactorsAmong(risk.factors, {"High Fever", "Mild Fever"})
            spo2Labels ==
                FactorsAmong(risk.factors, {"Critical Oxygen Level", "Low Oxygen Level"})
        IN  /\ NonZero(data.heart_rate) =>
                /\ without("heart_rate").exc = ""
                /\ IF hr > 1200 \/ hr < 600
                   THEN added("heart_rate") = 10 /\ hrLabels = <<"Abnormal Heart Rate">>
                   ELSE added("heart_rate") = 0 /\ hrLabels = <<>>
            /\ NonZero(data.temperature) =>
                /\ without("temperature").exc = ""
                /\ IF temp >= 385
                   THEN added("temperature") = 15 /\ tempLabels = <<"High Fever">>
                   ELSE IF temp >= 375
                   THEN added("temperature") = 5 /\ tempLabels = <<"Mild Fever">>
                   ELSE added("temperature") = 0 /\ tempLabels = <<>>
            /\ NonZero(data.spo2) =>
                /\ without("spo2").exc = ""
                /\ IF spo2 < 900
                   THEN added("spo2") = 25 /\ spo2Labels = <<"Critical Oxygen Level">>
                   ELSE IF spo2 < 950
                   THEN added("spo2") = 10 /\ spo2Labels = <<"Low Oxygen Level">>
                   ELSE added("spo2") = 0 /\ spo2Labels = <<>>

C20_Witness ==
    /\ pc = "assessed"
    /\ data = Request(<<>>, PyNone, PyNone, PyInt(59), PyFloat(384), PyInt(94))
    /\ risk.score = 25
    /\ risk.factors = <<"Abnormal Heart Rate", "Mild Fever", "Low Oxygen Level">>

\* the triage_records of a mother, oldest first
TriagesOf(id) == SelectSeq(store.triage_records, LAMBDA r : r.mother_id = PyInt(id))

\* the triage_records whose level raises a notification, oldest first
AlertingTriages ==
    SelectSeq(store.triage_records, LAMBDA r : r.risk_level \in {"high_risk", "emergency"})

(* C15: after a successful create_triage the stored risk_level of the       *)
(* mother is the level computed for that triage; a notification is inserted *)
(* for a triage if and only if its level is high_risk or emergency, with    *)
(* priority high for high_risk and critical for emergency; and after any    *)
(* sequence of successful triages of a mother her risk_level is the level   *)
(* of the last one.                                                         *)
C15_RiskLevelFollowsTriage ==
    /\ response.status = 201 =>
           /\ risk.exc = ""
           /\ risk = calculate_risk_score(data)
           /\ store.triage_records[Len(store.triage_records)].risk_level = risk.level
           /\ \A m \in store.mothers :
                  data.mother_id = PyInt(m.id) => m.risk_level = risk.level
    /\ \A m \in store.mothers :
           IF TriagesOf(m.id) = <<>> THEN m.risk_level = "normal"
           ELSE m.risk_level = TriagesOf(m.id)[Len(TriagesOf(m.id))].risk_level
    /\ Len(store.notifications) = Len(AlertingTriages)
    /\ \A k \in DOMAIN store.notifications :
           /\ store.notifications[k].type = "high_risk_alert"
           /\ store.notifications[k].mother_id = AlertingTriages[k].mother_id
           /\ store.notifications[k].priority =
                  (IF AlertingTriages[k].risk_level = "high_risk" THEN "high"
                   ELSE "critical")

C15_Witness ==
    /\ response.status = 201
    /\ Len(TriagesOf(1)) = 2
    /\ TriagesOf(1)[1].risk_level = "emergency"
    /\ TriagesOf(1)[2].risk_level = "high_risk"
    /\ \E m \in store.mothers : m.id = 1 /\ m.risk_level = "high_risk"
    /\ \E m \in store.mothers : m.id = 2 /\ m.risk_level = "normal"
    /\ Len(store.notifications) = 2
    /\ store.notifications[1].priority = "critical"
    /\ store.notifications[2].priority = "high"

\* the notifications of a list of alerts for a mother, in the order of the list
VitalNotifications(list, mother_id) ==
    [k \in 1..Len(list) |->
        Notification("vital_alert", list[k].title, list[k].message, mother_id,
                     list[k].priority)]

(* C16: a call of record_nataband_vitals that is answered 201 adds to       *)
(* notifications exactly one row per alert that check_vital_thresholds      *)
(* returns for the submitted reading, with the title, message and priority  *)
(* of that alert, and none when the list is empty; the alerts of the answer *)
(* are that list; a call answered otherwise adds no notification.           *)
C16_OneNotificationPerAlert ==
    [][LET checked == check_vital_thresholds(data')
       IN  IF response'.status = 201
           THEN /\ checked.exc = ""
                /\ response'.alerts = checked.list
                /\ store'.notifications =
                       store.notifications \o VitalNotifications(checked.list, data'.mother_id)
           ELSE store'.notifications = store.notifications]_vars

C16_Witness ==
    /\ pc = "nataband"
    /\ response.status = 201
    /\ Len(response.alerts) = 4
    /\ Len(store.nataband_readings) = 2
    /\ Len(store.notifications) = 5
    /\ store.notifications[1].title = "Abnormal Heart Rate"
    /\ store.notifications[2].title = "Critical Blood Pressure"
    /\ store.notifications[5].title = "High Fever"
    /\ store.notifications[5] =
           Notification("vital_alert", response.alerts[4].title, response.alerts[4].message,
                        data.mother_id, response.alerts[4].priority)

\* what a lone call of the function of a frame returns for its argument
AloneResult(frame) ==
    IF frame.fn = "calculate_risk_score" THEN calculate_risk_score(frame.given)
    ELSE check_vital_thresholds(frame.given)

(* C17: calculate_risk_score and check_vital_thresholds keep no state       *)
(* between calls and share none: however the steps of calls that run side   *)
(* by side interleave, a call returns what a lone call returns for the same *)
(* argument, and the mapping a call is given stays as it was given.         *)
C17_CallsDoNotInterfere ==
    pc = "calls" =>
        \A p \in Callers :
            /\ calls[p].data = calls[p].given
            /\ calls[p].stage = "done" => calls[p].result = AloneResult(calls[p])

C17_Witness ==
    /\ pc = "calls"
    /\ \A p \in Callers : calls[p].stage = "done" /\ calls[p].overlapped
    /\ calls[1].fn = "calculate_risk_score"
    /\ calls[2].fn = "calculate_risk_score"
    /\ calls[1].result.score = 85
    /\ calls[2].result.score = 0

HeartRateLabels == {"Abnormal Heart Rate"}

TemperatureLabels == {"High Fever", "Mild Fever"}

SpO2Labels == {"Critical Oxygen Level", "Low Oxygen Level"}

VitalLabels == BloodPressureLabels \cup HeartRateLabels \cup TemperatureLabels \cup SpO2Labels

\* the weight the rules give for a listed factor
FactorWeight(label) ==
    CASE label = "Severe Hypertension" -> 25
      [] label \in {"Hypertension", "Low Blood Pressure"} -> 15
      [] label = "Abnormal Heart Rate" -> 10
      [] label = "High Fever" -> 15
      [] label = "Mild Fever" -> 5
      [] label = "Critical Oxygen Level" -> 25
      [] label = "Low Oxygen Level" -> 10
      [] OTHER -> danger_signs[CHOOSE tag \in DOMAIN danger_signs : LabelTable[tag] = label]

RECURSIVE FactorSum(_)
FactorSum(factors) ==
    IF factors = <<>> THEN 0 ELSE FactorWeight(Head(factors)) + FactorSum(Tail(factors))

\* the known symptoms of a list, in its order, as labels
RECURSIVE KnownLabels(_)
KnownLabels(symptoms) ==
    IF symptoms = <<>> THEN <<>>
    ELSE (IF Head(symptoms) \in DOMAIN danger_signs
          THEN <<Title(ReplaceUnderscores(Head(symptoms)))>> ELSE <<>>)
         \o KnownLabels(Tail(symptoms))

(* C21: in every result each vital contributes at most once: at most one    *)
(* blood-pressure factor, one Abnormal Heart Rate, one fever factor and one *)
(* oxygen factor, so the vitals add at most 75; the score is a non-negative *)
(* integer, the sum of the weights of the listed factors.                   *)
C21_EachVitalAtMostOnce ==
    (pc = "assessed" /\ risk.exc = "") =>
        /\ Len(FactorsAmong(risk.factors, BloodPressureLabels)) <= 1
        /\ Len(FactorsAmong(risk.factors, HeartRateLabels)) <= 1
        /\ Len(FactorsAmong(risk.factors, TemperatureLabels)) <= 1
        /\ Len(FactorsAmong(risk.factors, SpO2Labels)) <= 1
        /\ risk.score - FactorSum(KnownLabels(data.symptoms)) \in 0..75
        /\ risk.score \in Nat
        /\ risk.score = FactorSum(risk.factors)

C21_Witness ==
    /\ pc = "assessed"
    /\ data = Request(<<>>, PyInt(170), PyInt(120), PyInt(121), PyFloat(385), PyInt(88))
    /\ risk.score = 75
    /\ Len(risk.factors) = 4

\* the place of a vital's factor in the order of the rules
VitalRank(label) ==
    CASE label \in BloodPressureLabels -> 1
      [] label \in HeartRateLabels -> 2
      [] label \in TemperatureLabels -> 3
      [] label \in SpO2Labels -> 4

(* C22: factors are in rule-evaluation order: first the labels of the known *)
(* symptoms in the order of the input (the tag with underscores replaced by *)
(* spaces, title-cased), then the blood-pressure factor, the heart-rate     *)
(* factor, the temperature factor and the SpO2 factor, in that order.       *)
C22_FactorsInRuleOrder ==
    (pc = "assessed" /\ risk.exc = "") =>
        LET labels == KnownLabels(data.symptoms)
            n == Len(labels)
            rest == SubSeq(risk.factors, n + 1, Len(risk.factors))
        IN  /\ Len(risk.factors) >= n
            /\ SubSeq(risk.factors, 1, n) = labels
            /\ \A i \in DOMAIN rest : rest[i] \in VitalLabels
            /\ \A i, j \in DOMAIN rest : i < j => VitalRank(rest[i]) < VitalRank(rest[j])

C22_Witness ==
    /\ pc = "assessed"
    /\ data = Request(<<"swelling_face_hands", "fever">>, PyInt(145), PyInt(70), PyInt(121),
                      PyFloat(385), PyInt(88))
    /\ risk.factors = <<"Swelling Face Hands", "Fever", "Hypertension",
                        "Abnormal Heart Rate", "High Fever", "Critical Oxygen Level">>

\* no rule of the classifier triggers on the request
NothingTriggers(d) ==
    /\ \A i \in DOMAIN d.symptoms : d.symptoms[i] \notin DOMAIN danger_signs
    /\ \/ ~Truthy(d.bp_systolic)
       \/ /\ IsNumber(d.bp_systolic) /\ IsNumber(d.bp_diastolic)
          /\ Tenths(d.bp_systolic) >= 900 /\ Tenths(d.bp_systolic) < 1400
          /\ Tenths(d.bp_diastolic) >= 600 /\ Tenths(d.bp_diastolic) < 900
    /\ \/ ~Truthy(d.heart_rate)
       \/ IsNumber(d.heart_rate) /\ Tenths(d.heart_rate) >= 600 /\ Tenths(d.heart_rate) <= 1200
    /\ \/ ~Truthy(d.temperature)
       \/ IsNumber(d.temperature) /\ Tenths(d.temperature) < 375
    /\ \/ ~Truthy(d.spo2)
       \/ IsNumber(d.spo2) /\ Tenths(d.spo2) >= 950

(* C23: in every result a level other than normal implies non-empty         *)
(* factors; factors is empty exactly when the score is 0; and an input in   *)
(* which no symptom and no vital band triggers gives score 0, level normal  *)
(* and empty factors.                                                       *)
C23_FactorsEmptyIffScoreZero ==
    pc = "assessed" =>
        /\ risk.exc = "" =>
               /\ risk.level # "normal" => risk.factors # <<>>
               /\ (risk.factors = <<>>) <=> (risk.score = 0)
        /\ NothingTriggers(data) =>
               risk = [exc |-> "", score |-> 0, level |-> "normal", factors |-> <<>>]

C23_Witness ==
    /\ pc = "assessed"
    /\ data = Request(<<>>, PyInt(120), PyInt(70), PyInt(60), PyFloat(374), PyInt(95))
    /\ risk.score = 0
    /\ risk.level = "normal"
    /\ risk.factors = <<>>

BloodPressureTitles == {"Critical Blood Pressure", "High Blood Pressure"}

SpO2Titles == {"Critical Oxygen Level", "Low Oxygen Level"}

\* the alerts of a list whose title is among the given ones
AlertsAmong(list, titles) == SelectSeq(list, LAMBDA a : a.title \in titles)

(* C24: the alerter and the classifier are distinct rule sets: a heart rate *)
(* from 50 to 59 is scored Abnormal Heart Rate and not alerted on; a        *)
(* temperature from 37.5 up to but not including 39 is scored Mild Fever or *)
(* High Fever and not alerted on; a low blood pressure (systolic < 90 or    *)
(* diastolic < 60, outside the hypertension tiers) is scored Low Blood      *)
(* Pressure and not alerted on.                                             *)
C24_ScoredButNotAlerted ==
    (pc = "assessed" /\ risk.exc = "" /\ check_vital_thresholds(data).exc = "") =>
        LET list == check_vital_thresholds(data).list
            hr == data.heart_rate
            temp == data.temperature
            sys == data.bp_systolic
            dia == data.bp_diastolic
        IN  /\ (IsNumber(hr) /\ Tenths(hr) >= 500 /\ Tenths(hr) <= 590) =>
                   /\ "Abnormal Heart Rate" \in Range(risk.factors)
                   /\ AlertsAmong(list, {"Abnormal Heart Rate"}) = <<>>
            /\ (IsNumber(temp) /\ Tenths(temp) >= 375 /\ Tenths(temp) < 390) =>
                   /\ FactorsAmong(risk.factors, TemperatureLabels) # <<>>
                   /\ AlertsAmong(list, {"High Fever"}) = <<>>
            /\ (/\ NonZero(sys) /\ IsNumber(dia)
                /\ Tenths(sys) < 1400 /\ Tenths(dia) < 900
                /\ (Tenths(sys) < 900 \/ Tenths(dia) < 600)) =>
                   /\ "Low Blood Pressure" \in Range(risk.factors)
                   /\ AlertsAmong(list, BloodPressureTitles) = <<>>

C24_Witness ==
    /\ pc = "assessed"
    /\ data = Request(<<>>, PyInt(89), PyInt(59), PyInt(59), PyFloat(389), PyNone)
    /\ risk.factors = <<"Low Blood Pressure", "Abnormal Heart Rate", "High Fever">>
    /\ check_vital_thresholds(data) = NoAlerts

(* C25: the triggers of the alerter are contained in those of the           *)
(* classifier: when both functions return, each alert for a vital is        *)
(* matched by a factor for that vital; a critical alert implies that the    *)
(* classifier adds at least 25 for that vital; and a record with a critical *)
(* alert never has level normal.                                            *)
C25_AlertsAreScored ==
    (pc = "assessed" /\ risk.exc = "" /\ check_vital_thresholds(data).exc = "") =>
        LET list == check_vital_thresholds(data).list
            added(f) == risk.score - calculate_risk_score([data EXCEPT ![f] = PyNone]).score
            addedBP == risk.score - calculate_risk_score(WithoutBloodPressure(data)).score
            critical(titles) ==
                \E a \in Range(AlertsAmong(list, titles)) : a.priority = "critical"
        IN  /\ AlertsAmong(list, BloodPressureTitles) # <<>> =>
                   FactorsAmong(risk.factors, BloodPressureLabels) # <<>>
            /\ AlertsAmong(list, {"Abnormal Heart Rate"}) # <<>> =>
                   FactorsAmong(risk.factors, HeartRateLabels) # <<>>
            /\ AlertsAmong(list, SpO2Titles) # <<>> =>
                   FactorsAmong(risk.factors, SpO2Labels) # <<>>
            /\ AlertsAmong(list, {"High Fever"}) # <<>> =>
                   FactorsAmong(risk.factors, TemperatureLabels) # <<>>
            /\ critical(BloodPressureTitles) => addedBP >= 25
            /\ critical(SpO2Titles) => added("spo2") >= 25
            /\ \A a \in Range(list) :
                   /\ a.title \in BloodPressureTitles \cup SpO2Titles
                                      \cup {"Abnormal Heart Rate", "High Fever"}
                   /\ a.priority = "critical" =>
                          /\ a.title \in BloodPressureTitles \cup SpO2Titles
                          /\ risk.level # "normal"

C25_Witness ==
    /\ pc = "assessed"
    /\ data = Request(<<>>, PyInt(90), PyInt(110), PyInt(49), PyFloat(390), PyInt(89))
    /\ Len(check_vital_thresholds(data).list) = 4
    /\ check_vital_thresholds(data).list[1].priority = "critical"
    /\ check_vital_thresholds(data).list[3].priority = "critical"
    /\ risk.factors = <<"Severe Hypertension", "Abnormal Heart Rate", "High Fever",
                        "Critical Oxygen Level">>

\* the role of the user with the given id
RoleOf(user_id) == (CHOOSE u \in Users : u.user_id = user_id).role

(* C26: after any sequence of requests every mothers row was created by a   *)
(* user with role phc_admin, phc_staff or chw and every home_visits row by  *)
(* a user with role chw; a caller with role mother creates neither through  *)
(* any route, sync_push included.                                           *)
C26_RowsByAllowedRoles ==
    /\ \A row \in store.mothers :
           RoleOf(row.registered_by) \in {"phc_admin", "phc_staff", "chw"}
    /\ \A row \in store.home_visits : RoleOf(row.chw_id) = "chw"

(* C27: every entry of the failed list carries the local_id of the item     *)
(* whose processing failed, never that of another (earlier) item, also when *)
(* the failure happens while the fields of the item are being read.         *)
C27_FailedCarriesOwnLocalId ==
    pc \in {"loop", "responded"} =>
        \A k \in DOMAIN results.failed :
            results.failed[k].local_id = batch[origin.failed[k]].local_id

\* the positions of the CHW assignments of a mother in a table
AssignmentsOf(assignments, mother_id) ==
    {k \in DOMAIN assignments : assignments[k].mother_id = mother_id}

\* a user with role chw exists
SomeChw(users) == \E r \in users : r.role = "chw"

Alerting(level) == level \in {"high_risk", "emergency"}

(* C29: after any sequence of create_triage calls each mother has at most   *)
(* one CHW assignment; a high_risk or emergency triage of a mother who has  *)
(* an assignment changes only its priority, to the new level, never its     *)
(* chw_id or assigned_at; a triage of level normal or caution leaves the    *)
(* assignments untouched; and when a user with role chw exists, every       *)
(* committed high_risk or emergency triage leaves the mother with an        *)
(* assignment whose priority is that level.                                 *)
C29_OneAssignmentPerMother ==
    [][LET old == store.chw_assignments
           new == store'.chw_assignments
           committed == response'.status = 201
           mother_id == data'.mother_id
           level == risk'.level
       IN  /\ \A m \in store'.mothers : Cardinality(AssignmentsOf(new, PyInt(m.id))) <= 1
           /\ Len(new) >= Len(old)
           /\ \A k \in DOMAIN old :
                  /\ new[k].mother_id = old[k].mother_id
                  /\ new[k].chw_id = old[k].chw_id
                  /\ new[k].assigned_at = old[k].assigned_at
                  /\ new[k].priority =
                         (IF /\ committed /\ Alerting(level) /\ SomeChw(store.users)
                             /\ mother_id # PyNone /\ old[k].mother_id = mother_id
                          THEN level ELSE old[k].priority)
           /\ (committed /\ ~Alerting(level)) => new = old
           /\ (committed /\ Alerting(level) /\ SomeChw(store.users) /\ mother_id # PyNone) =>
                  \E k \in AssignmentsOf(new, mother_id) : new[k].priority = level]_vars

C29_Witness ==
    /\ pc = "triage"
    /\ response.status = 201
    /\ now = 2
    /\ data.mother_id = PyInt(1)
    /\ risk.level = "emergency"
    /\ store.triage_records[1].risk_level = "high_risk"
    /\ Len(store.chw_assignments) = 1
    /\ store.chw_assignments[1].mother_id = PyInt(1)
    /\ store.chw_assignments[1].priority = "emergency"
    /\ store.chw_assignments[1].assigned_at = 1
    /\ \E m \in store.mothers : m.id = 1 /\ m.last_triage_date = 2

(* C30: create_triage is all-or-nothing: a call answered 201 has committed  *)
(* the triage record, the mother's risk_level and last_triage_date and, for *)
(* a high_risk or emergency level, the notification and the CHW assignment  *)
(* together; a call in which any step fails answers with an error and       *)
(* leaves the stored state unchanged.                                       *)
C30_AllOrNothing ==
    [][IF response'.status = 201
       THEN LET records == store'.triage_records
                level == risk'.level
                mother_id == data'.mother_id
            IN  /\ Len(records) = Len(store.triage_records) + 1
                /\ records[Len(records)].id = response'.id
                /\ records[Len(records)].risk_level = level
                /\ records[Len(records)].mother_id = mother_id
                /\ \A m \in store'.mothers :
                       mother_id = PyInt(m.id) =>
                           m.risk_level = level /\ m.last_triage_date = now'
                /\ Len(store'.notifications) =
                       Len(store.notifications) + (IF Alerting(level) THEN 1 ELSE 0)
                /\ (Alerting(level) /\ SomeChw(store.users)) =>
                       \E k \in AssignmentsOf(store'.chw_assignments, mother_id) :
                           store'.chw_assignments[k].priority = level
       ELSE /\ response'.status \in {401, 403, 500}
            /\ store' = store]_vars

C30_Witness ==
    /\ pc = "triage"
    /\ now = 2
    /\ response.status = 500
    /\ response.body = "OperationalError"
    /\ risk.level = "emergency"
    /\ data.mother_id = PyInt(1)
    /\ seq.triage_records = 2
    /\ Len(store.triage_records) = 1
    /\ Len(store.notifications) = 0
    /\ \E m \in store.mothers : m.id = 1 /\ m.risk_level = "caution"
                                    /\ m.last_triage_date = 1

(* C28: after any sequence of update_emergency_alert calls an alert whose    *)
(* status is 'resolved' has a non-null resolved_at: an update that does not *)
(* set the status leaves the resolved_at of a resolved alert unchanged.     *)
C28_ResolvedHasResolvedAt ==
    [][/\ \A k \in DOMAIN store'.emergency_alerts :
              store'.emergency_alerts[k].status = PyStr("resolved") =>
                  store'.emergency_alerts[k].resolved_at # PyNone
       /\ (data'.route = "update_emergency_alert" /\ data'.json.status = Absent) =>
              \A k \in DOMAIN store.emergency_alerts :
                  store.emergency_alerts[k].status = PyStr("resolved") =>
                      store'.emergency_alerts[k].resolved_at =
                          store.emergency_alerts[k].resolved_at]_vars

==========================================================================
